---- MODULE Spec2Model ----
(***************************************************************************)
(* A model of the UPS carrier integration: the OAuth token manager         *)
(* (UPSAuthManager, src/src/carriers/ups/auth.ts) and the rate service     *)
(* that uses it (UPSRateService, src/src/carriers/ups/service.ts).         *)
(*                                                                         *)
(* The program runs on a single-threaded event loop.  An async function    *)
(* runs without interruption up to its next `await`; every action below    *)
(* is one such uninterrupted piece of code.  A network call is started in  *)
(* one action and answered in a later one.                                 *)
(***************************************************************************)
EXTENDS Integers, Sequences, FiniteSets, TLC

(***************************************************************************)
(* Bounds of the model.                                                    *)
(***************************************************************************)
\* Number of calls made on the one manager (each task issues one call).
NumTasks == 2
\* Number of clock steps.
MaxTicks == 2
\* Length of one clock step in milliseconds.
TickMs == 100000
\* Number of clearCache() calls.
MaxClears == 1
\* Number of getRates() calls.
MaxRateCalls == 1
MaxHealthChecks == 1

Tasks == 1..NumTasks

(***************************************************************************)
(* Values of the JavaScript program.                                       *)
(***************************************************************************)
\* `undefined` where a token string is expected (a body without access_token).
Undefined == 0
\* The time value of an Invalid Date (Date.now() + undefined * 1000).
NaN == -1

\* auth.ts:21
TOKEN_EXPIRY_BUFFER_MS == 5 * 60 * 1000

\* cachedToken: CachedToken | null
NullToken == [isNull |-> TRUE, accessToken |-> Undefined, expiresAt |-> NaN,
              tokenType |-> "null"]
\* tokenRefreshPromise: Promise<string> | null; a promise is named by the
\* index of the refreshToken() invocation that returned it.
NullPromise == 0

NoError == [kind |-> "none", httpStatus |-> 0, origin |-> 0,
            retryAfterSeconds |-> Undefined, carrierErrorCode |-> "undefined",
            timeoutMs |-> Undefined]
\* A classified error object.  origin names the refresh (or, negated, the
\* task) whose failure created it: two failures are two objects.
\* retryAfterSeconds (RateLimitError), carrierErrorCode (CarrierApiError) and
\* timeoutMs (TimeoutError) are undefined unless the code that creates the
\* error sets them.
Err(kind, status, origin) ==
  [kind |-> kind, httpStatus |-> status, origin |-> origin,
   retryAfterSeconds |-> Undefined, carrierErrorCode |-> "undefined",
   timeoutMs |-> Undefined]

\* A string, or a field that is absent: the decimal digits the string starts
\* with, and what follows them (which does not start with a digit, nor with
\* white space followed by a digit when the string starts with no digit).
Text(lead, rest) == [absent |-> FALSE, lead |-> lead, rest |-> rest]
NoText == [absent |-> TRUE, lead |-> << >>, rest |-> ""]
\* The truthiness of a string or undefined.
Truthy(s) == ~s.absent /\ (s.lead # << >> \/ s.rest # "")
\* The number a sequence of decimal digits denotes.
RECURSIVE DigitsValue(_)
DigitsValue(d) ==
  IF d = << >> THEN 0 ELSE 10 * DigitsValue(SubSeq(d, 1, Len(d) - 1)) + d[Len(d)]
\* parseInt(s, 10): the leading digits, NaN when there is none.
ParseInt10(s) == IF s.lead = << >> THEN NaN ELSE DigitsValue(s.lead)

\* The classes of the taxonomy, errors/index.ts:52-223: the subclasses of
\* CarrierServiceError.  A TypeError is none of them.
ClassifiedKinds ==
  {"ValidationError", "AuthenticationError", "InvalidCredentialsError", "TimeoutError",
   "NetworkError", "CarrierApiError", "RateLimitError", "ResponseParsingError",
   "ConfigurationError"}
\* isCarrierServiceError(), errors/index.ts:228-230.
IsCarrierServiceError(e) == e.kind \in ClassifiedKinds
\* The isRetryable field of each class, errors/index.ts:54,72,105,124,157,172,190,212.
IsRetryableAuthRetries(e) ==
  IF e.kind \in {"TimeoutError", "NetworkError", "RateLimitError", "AuthenticationError"} THEN TRUE
  ELSE IF e.kind = "CarrierApiError" THEN e.httpStatus >= 500 \/ e.httpStatus = 429
  ELSE FALSE
IsRetryable(e) ==
  IF e.kind \in {"TimeoutError", "NetworkError", "RateLimitError"} THEN TRUE
  ELSE IF e.kind = "CarrierApiError" THEN e.httpStatus >= 500 \/ e.httpStatus = 429
  ELSE FALSE
\* isRetryableError(), errors/index.ts:232-237.
IsRetryableError(e) == IF IsCarrierServiceError(e) THEN IsRetryable(e) ELSE FALSE

\* The state of a promise: what an awaiting caller gets from it.
Pending == [state |-> "pending", value |-> Undefined, error |-> NoError]
Fulfilled(v) == [state |-> "fulfilled", value |-> v, error |-> NoError]
Rejected(e) == [state |-> "rejected", value |-> Undefined, error |-> e]

(***************************************************************************)
(* What the authentication endpoint can answer.                            *)
(***************************************************************************)
\* Bodies of a 200 answer.  expires_in is in seconds: 400 outlives the buffer,
\* 300 does not.  hasToken says whether the body carries access_token (its
\* value is then unique to the answer); a body may lack both fields, or be
\* missing altogether.
AuthBodies ==
  { [hasBody |-> TRUE,  hasToken |-> TRUE,  expires_in |-> 400, token_type |-> "Bearer"],
    [hasBody |-> TRUE,  hasToken |-> TRUE,  expires_in |-> 300, token_type |-> "Bearer"],
    [hasBody |-> TRUE,  hasToken |-> FALSE, expires_in |-> NaN, token_type |-> "Bearer"],
    [hasBody |-> FALSE, hasToken |-> FALSE, expires_in |-> NaN, token_type |-> "undefined"] }

\* Errors the HTTP client can throw: an AxiosError has a code and, when the
\* server answered, a response status (0: no response).
\* An answered request also has the response's retry-after header and the
\* code of the first entry of its body's response.errors.
AxiosErr(code, status) ==
  [isAxios |-> TRUE, code |-> code, status |-> status,
   retryAfter |-> NoText, errorCode |-> "undefined"]
AxiosResponse(code, status, retryAfter, errorCode) ==
  [isAxios |-> TRUE, code |-> code, status |-> status,
   retryAfter |-> retryAfter, errorCode |-> errorCode]
NonAxiosErr ==
  [isAxios |-> FALSE, code |-> "none", status |-> 0,
   retryAfter |-> NoText, errorCode |-> "undefined"]

\* The failures of the POST to the token URL the model lets happen.
AuthThrown ==
  { AxiosErr("ERR_BAD_REQUEST", 401),
    AxiosErr("ERR_BAD_REQUEST", 403),
    AxiosErr("ERR_BAD_REQUEST", 400),
    AxiosErr("ERR_BAD_RESPONSE", 500),
    AxiosErr("ECONNABORTED", 0),
    AxiosErr("ETIMEDOUT", 0),
    AxiosErr("ECONNREFUSED", 0),
    AxiosErr("ENOTFOUND", 0),
    AxiosErr("ECONNRESET", 0),
    NonAxiosErr }

(***************************************************************************)
(* What getRates() is called with, and what the rating endpoint can answer. *)
(***************************************************************************)
\* Address, domain/models.ts:39-45: its city ("undefined": the field is
\* missing) and its country code.
Address(city, countryCode) == [city |-> city, countryCode |-> countryCode]

\* RateRequest, domain/models.ts:60-66: the two addresses, the weights of the
\* packages and the optional service level.  The first two requests are
\* valid; the third has no package and a country code of three characters;
\* the fourth has a destination without city, a package of weight 0 and one
\* over the limit of 150.
RateRequests ==
  { [origin |-> Address("Atlanta", "US"), destination |-> Address("New York", "US"),
     packages |-> <<10>>, serviceLevel |-> "GROUND"],
    [origin |-> Address("Atlanta", "US"), destination |-> Address("Toronto", "CA"),
     packages |-> <<150>>, serviceLevel |-> "undefined"],
    [origin |-> Address("Atlanta", "USA"), destination |-> Address("New York", "US"),
     packages |-> << >>, serviceLevel |-> "undefined"],
    [origin |-> Address("Atlanta", "US"), destination |-> Address("undefined", "US"),
     packages |-> <<0, 151>>, serviceLevel |-> "GROUND"] }

\* The correlation ids generateRequestId() can draw, service.ts:220-227.
RequestIds == {"id-a", "id-b"}

\* A decimal string of the wire format, as its integer part and hundredths.
Decimal(units, hundredths) == [units |-> units, hundredths |-> hundredths]

\* One entry of RatedShipment, types.ts:56-92.
GroundShipment ==
  [hasService |-> TRUE, Code |-> "03", Description |-> "UPS Ground",
   MonetaryValue |-> Decimal(12, 50), CurrencyCode |-> "USD",
   BusinessDaysInTransit |-> Text(<<3>>, "")]
\* Entries whose GuaranteedDelivery.BusinessDaysInTransit is 'N/A', is
\* missing, and is a blank.
SecondDayShipment ==
  [hasService |-> TRUE, Code |-> "02", Description |-> "UPS 2nd Day Air",
   MonetaryValue |-> Decimal(35, 75), CurrencyCode |-> "USD",
   BusinessDaysInTransit |-> Text(<< >>, "N/A")]
NextDayShipment ==
  [hasService |-> TRUE, Code |-> "01", Description |-> "UPS Next Day Air",
   MonetaryValue |-> Decimal(58, 25), CurrencyCode |-> "USD",
   BusinessDaysInTransit |-> NoText]
StandardShipment ==
  [hasService |-> TRUE, Code |-> "11", Description |-> "",
   MonetaryValue |-> Decimal(20, 0), CurrencyCode |-> "CAD",
   BusinessDaysInTransit |-> Text(<< >>, " ")]

\* An entry without Service.
NoServiceShipment == [GroundShipment EXCEPT !.hasService = FALSE]

\* Bodies of a 2xx answer of the rating endpoint: RatedShipment is a list
\* (possibly empty, possibly with an entry that lacks Service), is missing,
\* or is a single object instead of a list.
RatingBodies ==
  { [RatedShipment |-> "list",    entries |-> <<GroundShipment>>],
    [RatedShipment |-> "list",
     entries |-> <<SecondDayShipment, GroundShipment, NextDayShipment, StandardShipment>>],
    [RatedShipment |-> "list",    entries |-> << >>],
    [RatedShipment |-> "list",    entries |-> <<NoServiceShipment>>],
    [RatedShipment |-> "missing", entries |-> << >>],
    [RatedShipment |-> "object",  entries |-> <<GroundShipment>>] }
NoBody == [RatedShipment |-> "none", entries |-> << >>]
\* What a POST to the rating URL ended with: a 2xx answer and its body, or
\* the error the HTTP client threw.
Answered(body) ==
  [isAxios |-> FALSE, code |-> "none", status |-> 200, body |-> body,
   retryAfter |-> NoText, errorCode |-> "undefined"]
Threw(e) ==
  [isAxios |-> e.isAxios, code |-> e.code, status |-> e.status, body |-> NoBody,
   retryAfter |-> e.retryAfter, errorCode |-> e.errorCode]

\* The failures of the POST to the rating URL the model lets happen.
RatingThrown ==
  { AxiosErr("ERR_BAD_REQUEST", 401),
    AxiosErr("ERR_BAD_REQUEST", 403),
    AxiosErr("ERR_BAD_REQUEST", 429),
    AxiosResponse("ERR_BAD_REQUEST", 429, Text(<<6, 0>>, ""), "undefined"),
    AxiosResponse("ERR_BAD_REQUEST", 429, Text(<< >>, "Sun, 01 Nov 2026 07:28:00 GMT"), "undefined"),
    AxiosResponse("ERR_BAD_REQUEST", 429, Text(<< >>, ""), "undefined"),
    AxiosErr("ERR_BAD_REQUEST", 404),
    AxiosResponse("ERR_BAD_REQUEST", 400, NoText, "111210"),
    AxiosErr("ERR_BAD_RESPONSE", 500),
    AxiosErr("ECONNABORTED", 0),
    AxiosErr("ETIMEDOUT", 0),
    AxiosErr("ECONNREFUSED", 0),
    AxiosErr("ENOTFOUND", 0),
    AxiosErr("ECONNRESET", 0),
    AxiosErr("ERR_NETWORK", 0),
    NonAxiosErr }

\* The promise getRates() returned: pending, fulfilled with a RateResponse
\* (its list of quotes), or rejected.
RatesPending == [state |-> "pending", quotes |-> << >>, error |-> NoError]
RatesFulfilled(q) == [state |-> "fulfilled", quotes |-> q, error |-> NoError]
RatesRejected(e) == [state |-> "rejected", quotes |-> << >>, error |-> e]

\* A task that has not called getRates().
NoRequest == [origin |-> Address("", ""), destination |-> Address("", ""),
              packages |-> << >>, serviceLevel |-> "undefined"]
NoWire == [RequestOption |-> "none", Package |-> << >>,
           ShipFrom |-> Address("", ""), ShipTo |-> Address("", "")]
NoRates ==
  [stage |-> "none", request |-> NoRequest, requestId |-> "none", wire |-> NoWire,
   issues |-> {}, tokens |-> << >>, calls |-> << >>, answers |-> << >>,
   errors |-> << >>, forced |-> 0,
   response |-> NoBody, result |-> RatesPending]

\* withRetry() has not been called.  An invocation keeps its options, the
\* loop variable, lastError, and, as history, the outcome of every attempt
\* and the order of invocations and sleeps.
NoRetry ==
  [stage |-> "none", maxRetries |-> 0, initialDelayMs |-> 0, maxDelayMs |-> 0,
   shouldRetry |-> {}, attempt |-> 0, lastError |-> [thrown |-> FALSE, id |-> "none", by |-> 0],
   outcomes |-> << >>, log |-> << >>, result |-> Pending]

\* process.env as the loaders read it, and the module variable cachedConfig
\* (errors/index.ts:418).  As history: loads counts the calls of loadConfig(),
\* calls those of getConfig(), resets those of resetConfigCache(), fresh the
\* loads that succeeded since the last reset, and returned is what the last
\* getConfig() returned or threw.
EnvOk == [NODE_ENV |-> "production", UPS_CLIENT_ID |-> "id-1"]
NullConfig == [isNull |-> TRUE, object |-> 0, environment |-> "none", clientId |-> "none"]
NoApp ==
  [env |-> EnvOk, cachedConfig |-> NullConfig, loads |-> 0, calls |-> 0, resets |-> 0,
   fresh |-> 0, returned |-> Pending]

\* No getTokenState() call has returned yet.
NoTokenState ==
  [called |-> FALSE, hasToken |-> FALSE, expiresAt |-> Undefined, isValid |-> FALSE]

VARIABLES
  config,               \* the UPSConfig the manager was constructed with
  cachedToken,          \* UPSAuthManager.cachedToken
  tokenRefreshPromise,  \* UPSAuthManager.tokenRefreshPromise
  now,                  \* Date.now(), in milliseconds
  refreshes,            \* the promises returned by refreshToken(), in call order
  op,                   \* the operation each task called
  pc,                   \* where each task is suspended
  awaited,              \* the refresh promise a task awaits
  tokenResult,          \* the promise its getAccessToken()/forceRefresh() returned
  clears,               \* how many times clearCache() was called
  issued,               \* history: what was under way when the task called
  tokenState,           \* what the last getTokenState() call returned
  health,               \* what the healthCheck() call of each task returned
  route,                \* the last supportsRoute() call and what it returned
  retry,                \* the withRetry() invocation
  app,                  \* process.env and the module's cachedConfig
  rates                 \* the getRates() invocation of each task

authVars == <<cachedToken, tokenRefreshPromise, refreshes>>
taskVars == <<op, pc, awaited, tokenResult, issued, rates>>
vars == <<config, cachedToken, tokenRefreshPromise, now, refreshes,
          op, pc, awaited, tokenResult, issued, clears, rates, tokenState, health,
          route, retry, app>>

\* A country code is the sequence of its characters.
US == <<"U", "S">>
CA == <<"C", "A">>
FR == <<"F", "R">>
\* config.supportedCountries: a list of codes, or undefined.
Countries(items) == [isUndefined |-> FALSE, items |-> items]
NoCountries == [isUndefined |-> TRUE, items |-> << >>]

Configs ==
  { [clientId |-> "test-client-id", clientSecret |-> "test-client-secret", timeoutMs |-> 30000,
     supportedCountries |-> Countries(<<US, CA>>)],
    [clientId |-> "test-client-id", clientSecret |-> "test-client-secret", timeoutMs |-> 5000,
     supportedCountries |-> Countries(<<US, CA>>)],
    [clientId |-> "",               clientSecret |-> "test-client-secret", timeoutMs |-> 30000,
     supportedCountries |-> Countries(<<US, CA>>)],
    [clientId |-> "test-client-id", clientSecret |-> "",                   timeoutMs |-> 30000,
     supportedCountries |-> Countries(<<US, CA>>)] }

\* The allow-lists a service can be configured with: UPSConfigSchema accepts
\* any array of strings, errors/index.ts:299, and the constructor of the
\* service takes the configuration as it is.
AllowLists ==
  { Countries(<<US, CA>>), Countries(<<<<"u", "s">>, <<"c", "a">>>>),
    Countries(<<FR>>), Countries(<< >>), NoCountries }
\* The codes supportsRoute() is called with.
CountryArgs == { US, <<"u", "s">>, <<"U", "s">>, CA, <<"c", "a">>, FR }

\* No supportsRoute() call has returned yet.
NoRoute == [called |-> FALSE, origin |-> << >>, destination |-> << >>, result |-> FALSE]

\* The state after construction, but for the configuration.
InitState ==
  /\ cachedToken = NullToken
  /\ tokenRefreshPromise = NullPromise
  /\ now = 0
  /\ refreshes = << >>
  /\ op = [t \in Tasks |-> "none"]
  /\ pc = [t \in Tasks |-> "idle"]
  /\ awaited = [t \in Tasks |-> NullPromise]
  /\ tokenResult = [t \in Tasks |-> Pending]
  /\ issued = [t \in Tasks |-> [settled |-> 0, pending |-> {}]]
  /\ clears = 0
  /\ tokenState = NoTokenState
  /\ health = [t \in Tasks |-> "none"]
  /\ rates = [t \in Tasks |-> NoRates]
  /\ route = NoRoute
  /\ retry = NoRetry
  /\ app = NoApp

\* A service configured with any of the allow-lists.
InitRoute ==
  /\ config \in { [c EXCEPT !.supportedCountries = l] : c \in Configs, l \in AllowLists }
  /\ InitState

Init ==
  /\ config \in Configs
  /\ InitState

(***************************************************************************)
(* UPSAuthManager                                                          *)
(***************************************************************************)
RefreshIds == 1..Len(refreshes)
\* Refreshes whose POST to the token URL has not been answered.
Outstanding == { p \in RefreshIds : refreshes[p].state = "pending" }
\* Refreshes that made a POST to the token URL.
Posted == { p \in RefreshIds : refreshes[p].posted }
\* Refreshes that have settled.
Settled == { p \in RefreshIds : refreshes[p].state # "pending" }

\* isTokenValid(), auth.ts:55-62.  A comparison with an Invalid Date is false.
IsTokenValidLate(c, t) ==
  /\ ~c.isNull
  /\ c.expiresAt # NaN
  /\ t <= c.expiresAt - TOKEN_EXPIRY_BUFFER_MS
IsTokenValidNoBuffer(c, t) ==
  /\ ~c.isNull
  /\ c.expiresAt # NaN
  /\ t < c.expiresAt
IsTokenValid(c, t) ==
  /\ ~c.isNull
  /\ c.expiresAt # NaN
  /\ t < c.expiresAt - TOKEN_EXPIRY_BUFFER_MS

\* refreshToken() up to its first await, auth.ts:65-81: the promise it
\* returns, already rejected when a credential is missing, else pending on
\* the POST it made.
RefreshTokenStartNoCheck(p) == [posted |-> TRUE] @@ Pending
RefreshTokenStartChecksIdOnly(p) ==
  IF config.clientId = ""
    THEN [posted |-> FALSE] @@ Rejected(Err("InvalidCredentialsError", 0, p))
    ELSE [posted |-> TRUE] @@ Pending
RefreshTokenStart(p) ==
  IF config.clientId = "" \/ config.clientSecret = ""
    THEN [posted |-> FALSE] @@ Rejected(Err("InvalidCredentialsError", 0, p))
    ELSE [posted |-> TRUE] @@ Pending

\* handleAxiosError(), auth.ts:105-140.
AuthHandleAxiosErrorOnly401(e, p) ==
  IF e.code \in {"ECONNABORTED", "ETIMEDOUT"}
    THEN [Err("TimeoutError", 0, p) EXCEPT !.timeoutMs = config.timeoutMs]
  ELSE IF e.code \in {"ENOTFOUND", "ECONNREFUSED"} THEN Err("NetworkError", 0, p)
  ELSE IF e.status # 0
    THEN IF e.status = 401
           THEN Err("InvalidCredentialsError", 0, p)
           ELSE Err("AuthenticationError", e.status, p)
  ELSE Err("NetworkError", 0, p)
AuthHandleAxiosError(e, p) ==
  IF e.code \in {"ECONNABORTED", "ETIMEDOUT"}
    THEN [Err("TimeoutError", 0, p) EXCEPT !.timeoutMs = config.timeoutMs]
  ELSE IF e.code \in {"ENOTFOUND", "ECONNREFUSED"} THEN Err("NetworkError", 0, p)
  ELSE IF e.status # 0
    THEN IF e.status \in {401, 403}
           THEN Err("InvalidCredentialsError", 0, p)
           ELSE Err("AuthenticationError", e.status, p)
  ELSE Err("NetworkError", 0, p)

\* The catch block of refreshToken(), auth.ts:89-101.  What the try block
\* throws is an AxiosError or, for a 200 without a body, a TypeError.
RefreshTokenCatch(e, p) ==
  IF e.isAxios THEN AuthHandleAxiosError(e, p)
  ELSE Err("AuthenticationError", 0, p)

\* The CachedToken built from a 200 answer, auth.ts:82-87.
CachedTokenOf(body, p, t) ==
  [isNull |-> FALSE,
   accessToken |-> IF body.hasToken THEN p ELSE Undefined,
   expiresAt |-> IF body.expires_in = NaN THEN NaN ELSE t + body.expires_in * 1000,
   tokenType |-> body.token_type]

\* What the promise returned to task t by getAccessToken()/forceRefresh()
\* holds.  A caller that was handed the refresh promise itself (auth.ts:37)
\* has a promise that settles as that one does.
Outcome(p) == [state |-> refreshes[p].state, value |-> refreshes[p].value,
               error |-> refreshes[p].error]
TokenOutcome(t) ==
  IF pc[t] = "joined" THEN Outcome(awaited[t]) ELSE tokenResult[t]

\* History of a call, taken when it is issued: how many refreshes had
\* settled, and which tasks' calls had not yet returned.
IssuedNow ==
  [settled |-> Cardinality(Settled),
   pending |-> { u \in Tasks : pc[u] \in {"awaiting", "joined"}
                                 /\ TokenOutcome(u).state = "pending" }]

\* getAccessToken() up to its first suspension, auth.ts:35-41, entered by
\* task t with the cache holding c.
EnterNoDedup(t, c) ==
  /\ issued' = [issued EXCEPT ![t] = IssuedNow]
  /\ cachedToken' = c
  /\ IF IsTokenValid(c, now)
       THEN /\ tokenResult' = [tokenResult EXCEPT ![t] = Fulfilled(c.accessToken)]
            /\ pc' = [pc EXCEPT ![t] = "resolved"]
            /\ UNCHANGED <<tokenRefreshPromise, refreshes, awaited>>
       ELSE /\ refreshes' = Append(refreshes, RefreshTokenStart(Len(refreshes) + 1))
            /\ tokenRefreshPromise' = Len(refreshes) + 1
            /\ pc' = [pc EXCEPT ![t] = "awaiting"]
            /\ awaited' = [awaited EXCEPT ![t] = Len(refreshes) + 1]
            /\ tokenResult' = [tokenResult EXCEPT ![t] = Pending]
EnterGetAccessToken(t, c) ==
  /\ issued' = [issued EXCEPT ![t] = IssuedNow]
  /\ cachedToken' = c
  /\ IF IsTokenValid(c, now)
       THEN /\ tokenResult' = [tokenResult EXCEPT ![t] = Fulfilled(c.accessToken)]
            /\ pc' = [pc EXCEPT ![t] = "resolved"]
            /\ UNCHANGED <<tokenRefreshPromise, refreshes, awaited>>
       ELSE IF tokenRefreshPromise # NullPromise
         THEN /\ pc' = [pc EXCEPT ![t] = "joined"]
              /\ awaited' = [awaited EXCEPT ![t] = tokenRefreshPromise]
              /\ tokenResult' = [tokenResult EXCEPT ![t] = Pending]
              /\ UNCHANGED <<tokenRefreshPromise, refreshes>>
         ELSE /\ refreshes' = Append(refreshes, RefreshTokenStart(Len(refreshes) + 1))
              /\ tokenRefreshPromise' = Len(refreshes) + 1
              /\ pc' = [pc EXCEPT ![t] = "awaiting"]
              /\ awaited' = [awaited EXCEPT ![t] = Len(refreshes) + 1]
              /\ tokenResult' = [tokenResult EXCEPT ![t] = Pending]

\* Calls are numbered in the order they are issued: task t makes the t-th.
CanCall(t) == pc[t] = "idle" /\ (IF t = 1 THEN TRUE ELSE pc[t - 1] # "idle")

\* A caller calls getAccessToken(), auth.ts:35-41.
GetAccessToken(t) ==
  /\ CanCall(t)
  /\ op' = [op EXCEPT ![t] = "getAccessToken"]
  /\ EnterGetAccessToken(t, cachedToken)
  /\ UNCHANGED <<config, retry, app, route, health, tokenState, now, clears, rates>>

\* A caller calls forceRefresh(), auth.ts:49-52.
ForceRefreshDirect(t) ==
  /\ CanCall(t)
  /\ op' = [op EXCEPT ![t] = "forceRefresh"]
  /\ issued' = [issued EXCEPT ![t] = IssuedNow]
  /\ cachedToken' = NullToken
  /\ refreshes' = Append(refreshes, RefreshTokenStart(Len(refreshes) + 1))
  /\ pc' = [pc EXCEPT ![t] = "joined"]
  /\ awaited' = [awaited EXCEPT ![t] = Len(refreshes) + 1]
  /\ tokenResult' = [tokenResult EXCEPT ![t] = Pending]
  /\ UNCHANGED <<config, retry, app, route, health, tokenState, now, clears, rates, tokenRefreshPromise>>
ForceRefreshKeepCache(t) ==
  /\ CanCall(t)
  /\ op' = [op EXCEPT ![t] = "forceRefresh"]
  /\ EnterGetAccessToken(t, cachedToken)
  /\ UNCHANGED <<config, retry, app, route, health, tokenState, now, clears, rates>>
ForceRefresh(t) ==
  /\ CanCall(t)
  /\ op' = [op EXCEPT ![t] = "forceRefresh"]
  /\ EnterGetAccessToken(t, NullToken)
  /\ UNCHANGED <<config, retry, app, route, health, tokenState, now, clears, rates>>

\* The token endpoint answers 200 and refreshToken() resumes, auth.ts:82-88
\* (a body that is missing makes tokenData.access_token throw: auth.ts:84,96).
\* The fulfilled promise keeps, as history, the body that was answered, the
\* time of the answer and its place in the order of settlements.
AuthRespondOkKeepsExpiry(p, body) ==
  /\ p \in Outstanding
  /\ IF body.hasBody
       THEN /\ cachedToken' =
                 [CachedTokenOf(body, p, now) EXCEPT
                    !.expiresAt = IF cachedToken.isNull THEN @ ELSE cachedToken.expiresAt]
            /\ refreshes' = [refreshes EXCEPT ![p] =
                 [posted |-> TRUE, body |-> body, at |-> now,
                  seq |-> Cardinality(Settled) + 1]
                   @@ Fulfilled(cachedToken'.accessToken)]
       ELSE /\ cachedToken' = cachedToken
            /\ refreshes' = [refreshes EXCEPT ![p] =
                 [posted |-> TRUE, thrown |-> NonAxiosErr]
                   @@ Rejected(RefreshTokenCatch(NonAxiosErr, p))]
  /\ UNCHANGED <<config, retry, app, route, health, tokenState, tokenRefreshPromise, now, clears, taskVars>>
AuthRespondOk(p, body) ==
  /\ p \in Outstanding
  /\ IF body.hasBody
       THEN /\ cachedToken' = CachedTokenOf(body, p, now)
            /\ refreshes' = [refreshes EXCEPT ![p] =
                 [posted |-> TRUE, body |-> body, at |-> now,
                  seq |-> Cardinality(Settled) + 1]
                   @@ Fulfilled(cachedToken'.accessToken)]
       ELSE /\ cachedToken' = cachedToken
            /\ refreshes' = [refreshes EXCEPT ![p] =
                 [posted |-> TRUE, thrown |-> NonAxiosErr]
                   @@ Rejected(RefreshTokenCatch(NonAxiosErr, p))]
  /\ UNCHANGED <<config, retry, app, route, health, tokenState, tokenRefreshPromise, now, clears, taskVars>>

\* The POST fails and refreshToken() resumes in its catch block, auth.ts:89-101.
\* The rejected promise keeps what was thrown (the originalError of auth.ts:98).
AuthRespondErrorDropsCache(p, e) ==
  /\ p \in Outstanding
  /\ refreshes' = [refreshes EXCEPT ![p] =
       [posted |-> TRUE, thrown |-> e] @@ Rejected(RefreshTokenCatch(e, p))]
  /\ cachedToken' = NullToken
  /\ UNCHANGED <<config, retry, app, route, health, tokenState, tokenRefreshPromise, now, clears, taskVars>>
AuthRespondError(p, e) ==
  /\ p \in Outstanding
  /\ refreshes' = [refreshes EXCEPT ![p] =
       [posted |-> TRUE, thrown |-> e] @@ Rejected(RefreshTokenCatch(e, p))]
  /\ UNCHANGED <<config, retry, app, route, health, tokenState, cachedToken, tokenRefreshPromise, now, clears, taskVars>>

\* The caller that started the refresh resumes after its await, auth.ts:41-45.
ResumeClearOnSuccess(t) ==
  /\ pc[t] = "awaiting"
  /\ awaited[t] \in Settled
  /\ tokenRefreshPromise' =
       IF refreshes[awaited[t]].state = "fulfilled" THEN NullPromise
       ELSE tokenRefreshPromise
  /\ tokenResult' = [tokenResult EXCEPT ![t] = Outcome(awaited[t])]
  /\ pc' = [pc EXCEPT ![t] = "resolved"]
  /\ UNCHANGED <<config, retry, app, route, health, tokenState, cachedToken, now, clears, refreshes, op, awaited, issued, rates>>
ResumeKeepsMarker(t) ==
  /\ pc[t] = "awaiting"
  /\ awaited[t] \in Settled
  /\ tokenResult' = [tokenResult EXCEPT ![t] = Outcome(awaited[t])]
  /\ pc' = [pc EXCEPT ![t] = "resolved"]
  /\ UNCHANGED <<config, retry, app, route, health, tokenState, cachedToken, tokenRefreshPromise, now, clears, refreshes, op, awaited, issued, rates>>
Resume(t) ==
  /\ pc[t] = "awaiting"
  /\ awaited[t] \in Settled
  /\ tokenRefreshPromise' = NullPromise
  /\ tokenResult' = [tokenResult EXCEPT ![t] = Outcome(awaited[t])]
  /\ pc' = [pc EXCEPT ![t] = "resolved"]
  /\ UNCHANGED <<config, retry, app, route, health, tokenState, cachedToken, now, clears, refreshes, op, awaited, issued, rates>>

\* getTokenState(), auth.ts:143-149: a read of the two fields and the clock.
GetTokenStateIgnoresExpiry ==
  [hasToken |-> ~cachedToken.isNull,
   expiresAt |-> IF cachedToken.isNull THEN Undefined ELSE cachedToken.expiresAt,
   isValid |-> ~cachedToken.isNull]
GetTokenState ==
  [hasToken |-> ~cachedToken.isNull,
   expiresAt |-> IF cachedToken.isNull THEN Undefined ELSE cachedToken.expiresAt,
   isValid |-> IsTokenValid(cachedToken, now)]

\* A caller calls getTokenState(), auth.ts:143-149, and keeps what it returned.
GetTokenStateCall ==
  /\ tokenState' = [called |-> TRUE] @@ GetTokenState
  /\ UNCHANGED <<config, retry, app, route, health, authVars, now, clears, taskVars>>

\* clearCache(), auth.ts:152-155.
ClearCacheKeepsMarker ==
  /\ clears < MaxClears
  /\ clears' = clears + 1
  /\ cachedToken' = NullToken
  /\ UNCHANGED <<config, retry, app, route, health, tokenState, now, tokenRefreshPromise, refreshes, taskVars>>
ClearCache ==
  /\ clears < MaxClears
  /\ clears' = clears + 1
  /\ cachedToken' = NullToken
  /\ tokenRefreshPromise' = NullPromise
  /\ UNCHANGED <<config, retry, app, route, health, tokenState, now, refreshes, taskVars>>

\* Time passes.  The manager reads the clock only in isTokenValid() and to
\* stamp a new token, so the clock is stepped only while a valid token is
\* cached: at any other moment a later start changes nothing it can see.
Tick ==
  /\ now < MaxTicks * TickMs
  /\ IsTokenValid(cachedToken, now)
  /\ now' = now + TickMs
  /\ UNCHANGED <<config, retry, app, route, health, tokenState, authVars, clears, taskVars>>

(***************************************************************************)
(* UPSRateService                                                          *)
(***************************************************************************)
\* validateRateRequest(), domain/models.ts:23-26,39-45,60-66,94-96: the
\* issues of the ZodError, one per violated constraint.
\* An issue: its path (a field of the request, an index into packages where
\* there is one, and the field below it) and the message, named by its code.
Issue(at, index, field, message) ==
  [at |-> at, index |-> index, field |-> field, message |-> message]
\* AddressSchema, domain/models.ts:39-45, for the address at path a.
AddressIssues(a, addr) ==
  (IF addr.city = "undefined" THEN {Issue(a, 0, "city", "invalid_type")} ELSE {})
  \cup (IF Len(addr.countryCode) > 2 THEN {Issue(a, 0, "countryCode", "too_big")} ELSE {})
  \cup (IF Len(addr.countryCode) < 2 THEN {Issue(a, 0, "countryCode", "too_small")} ELSE {})
ValidateIssuesFirstOnly(r) ==
  IF r.origin.city = "undefined" \/ Len(r.origin.countryCode) # 2
    THEN {Issue("origin", 0, "address", "invalid")}
  ELSE IF r.destination.city = "undefined" \/ Len(r.destination.countryCode) # 2
    THEN {Issue("destination", 0, "address", "invalid")}
  ELSE IF Len(r.packages) < 1 \/ \E j \in 1..Len(r.packages) : r.packages[j] <= 0 \/ r.packages[j] > 150
    THEN {Issue("packages", 0, "", "invalid")}
  ELSE {}
ValidateIssues(r) ==
  AddressIssues("origin", r.origin)
  \cup AddressIssues("destination", r.destination)
  \cup (IF Len(r.packages) < 1 THEN {Issue("packages", 0, "", "too_small")} ELSE {})
  \cup { Issue("packages", i, "weight.value", "too_small") : i \in
           { j \in 1..Len(r.packages) : r.packages[j] <= 0 } }
  \cup { Issue("packages", i, "weight.value", "too_big") : i \in
           { j \in 1..Len(r.packages) : r.packages[j] > 150 } }

\* Number.toFixed(1) of a whole number.
ToFixed1(w) == Decimal(w, 0)

\* toUPSRateRequest(), mapper.ts:5-45.
ToUPSRateRequestAlwaysShop(r) ==
  [RequestOption |-> "Shop",
   Package |-> [i \in 1..Len(r.packages) |-> ToFixed1(r.packages[i])],
   ShipFrom |-> r.origin,
   ShipTo |-> r.destination]
ToUPSRateRequest(r) ==
  [RequestOption |-> IF r.serviceLevel # "undefined" THEN "Rate" ELSE "Shop",
   Package |-> [i \in 1..Len(r.packages) |-> ToFixed1(r.packages[i])],
   ShipFrom |-> r.origin,
   ShipTo |-> r.destination]

\* parseFloat() of a decimal string, in hundredths.
ParseFloat(d) == d.units * 100 + d.hundredths

\* An optional number of the domain model: a number (NaN is one), or omitted.
Some(v) == [defined |-> TRUE, value |-> v]
None == [defined |-> FALSE, value |-> 0]
\* Number() of a string: white space around the digits is ignored, a string
\* of white space only is 0, and what is no numeral is NaN.
NumberOf(str) ==
  IF str.rest \in {"", " "}
    THEN IF str.lead = << >> THEN 0 ELSE DigitsValue(str.lead)
    ELSE NaN
\* businessDaysInTransit of a quote, mapper.ts:81-85.
BusinessDaysInTransitOf(rated) ==
  IF Truthy(rated.BusinessDaysInTransit) /\ NumberOf(rated.BusinessDaysInTransit) # NaN
    THEN Some(ParseInt10(rated.BusinessDaysInTransit))
    ELSE None

\* One quote of fromUPSRateResponse(), mapper.ts:55-87.
QuoteOf(rated) ==
  [serviceLevel |-> IF rated.Description # "" THEN rated.Description ELSE "STANDARD",
   carrierServiceCode |-> rated.Code,
   amount |-> ParseFloat(rated.MonetaryValue),
   currency |-> rated.CurrencyCode,
   businessDaysInTransit |-> BusinessDaysInTransitOf(rated)]

\* fromUPSRateResponse(), mapper.ts:49-100: the promise getRates() returns
\* once callRatingApi() has returned body.  A RatedShipment without map(), or
\* an entry without Service, makes the mapper throw a TypeError.
FromUPSRateResponseEmptyIsError(body, t) ==
  IF /\ body.RatedShipment = "list" /\ body.entries # << >>
     /\ \A i \in 1..Len(body.entries) : body.entries[i].hasService
    THEN RatesFulfilled([i \in 1..Len(body.entries) |-> QuoteOf(body.entries[i])])
    ELSE RatesRejected(Err("TypeError", 0, -t))
FromUPSRateResponse(body, t) ==
  IF body.RatedShipment = "list" /\ \A i \in 1..Len(body.entries) : body.entries[i].hasService
    THEN RatesFulfilled([i \in 1..Len(body.entries) |-> QuoteOf(body.entries[i])])
    ELSE RatesRejected(Err("TypeError", 0, -t))

\* handleAxiosError(), service.ts:173-209.
RatingHandleAxiosErrorAuthClass(e, o) ==
  IF e.code \in {"ECONNABORTED", "ETIMEDOUT"}
    THEN [Err("TimeoutError", 0, o) EXCEPT !.timeoutMs = config.timeoutMs]
  ELSE IF e.code \in {"ENOTFOUND", "ECONNREFUSED", "ECONNRESET"} THEN Err("NetworkError", 0, o)
  ELSE IF e.status # 0
    THEN IF e.status = 429
           THEN [Err("RateLimitError", 0, o) EXCEPT !.retryAfterSeconds =
                   IF Truthy(e.retryAfter) THEN ParseInt10(e.retryAfter) ELSE Undefined]
         ELSE IF e.status \in {401, 403}
           THEN Err("AuthenticationError", e.status, o)
           ELSE Err("CarrierApiError", e.status, o)
  ELSE Err("NetworkError", 0, o)
RatingHandleAxiosError(e, o) ==
  IF e.code \in {"ECONNABORTED", "ETIMEDOUT"}
    THEN [Err("TimeoutError", 0, o) EXCEPT !.timeoutMs = config.timeoutMs]
  ELSE IF e.code \in {"ENOTFOUND", "ECONNREFUSED", "ECONNRESET"} THEN Err("NetworkError", 0, o)
  ELSE IF e.status # 0
    THEN IF e.status = 429
           THEN [Err("RateLimitError", 0, o) EXCEPT !.retryAfterSeconds =
                   IF Truthy(e.retryAfter) THEN ParseInt10(e.retryAfter) ELSE Undefined]
           ELSE Err("CarrierApiError", e.status, o)
  ELSE Err("NetworkError", 0, o)

\* The catch block of callRatingApi(), service.ts:162-169.
RatingCatchRethrows(e, o) ==
  IF e.isAxios THEN RatingHandleAxiosError(e, o)
  ELSE Err("Error", 0, o)
RatingCatch(e, o) ==
  IF e.isAxios THEN RatingHandleAxiosError(e, o)
  ELSE Err("NetworkError", 0, o)

\* isAuthError(), service.ts:212-214.
IsAuthErrorOnly401(e) == e.kind = "CarrierApiError" /\ e.httpStatus = 401
IsAuthErrorAny4xx(e) == e.kind = "CarrierApiError" /\ e.httpStatus \in 400..499
IsAuthError(e) == e.kind = "CarrierApiError" /\ e.httpStatus \in {401, 403}

\* getRates() up to its first await, service.ts:39-42.  A request that fails
\* validation rejects the call before the manager is asked for a token.
GetRatesUnvalidated(t, req, id) ==
  /\ CanCall(t)
  /\ Cardinality({ u \in Tasks : op[u] = "getRates" }) < MaxRateCalls
  /\ op' = [op EXCEPT ![t] = "getRates"]
  /\ rates' = [rates EXCEPT ![t] =
       [NoRates EXCEPT !.stage = "token", !.request = req, !.requestId = id]]
  /\ EnterGetAccessToken(t, cachedToken)
  /\ UNCHANGED <<config, retry, app, route, health, tokenState, now, clears>>
GetRates(t, req, id) ==
  /\ CanCall(t)
  /\ Cardinality({ u \in Tasks : op[u] = "getRates" }) < MaxRateCalls
  /\ op' = [op EXCEPT ![t] = "getRates"]
  /\ IF ValidateIssues(req) # {}
       THEN /\ rates' = [rates EXCEPT ![t] =
                 [NoRates EXCEPT !.stage = "done", !.request = req, !.requestId = id,
                                 !.issues = ValidateIssues(req),
                                 !.result = RatesRejected(Err("ValidationError", 0, -t))]]
            /\ pc' = [pc EXCEPT ![t] = "invalid"]
            /\ UNCHANGED <<authVars, awaited, tokenResult, issued>>
       ELSE /\ rates' = [rates EXCEPT ![t] =
                 [NoRates EXCEPT !.stage = "token", !.request = req, !.requestId = id]]
            /\ EnterGetAccessToken(t, cachedToken)
  /\ UNCHANGED <<config, retry, app, route, health, tokenState, now, clears>>

\* The rating call getRates() makes with the token it was just given: the
\* first one, service.ts:76-85, and the repeated one, service.ts:89.
FirstCall(t) ==
  [token |-> TokenOutcome(t).value, wire |-> ToUPSRateRequest(rates[t].request),
   transId |-> rates[t].requestId]
RetryCallStaleToken(t) ==
  [token |-> rates[t].tokens[1], wire |-> rates[t].wire, transId |-> rates[t].requestId]
RetryCall(t) ==
  [token |-> TokenOutcome(t).value, wire |-> rates[t].wire, transId |-> rates[t].requestId]

\* getRates() resumes from `await getAccessToken()` (service.ts:42) or from
\* `await forceRefresh()` (service.ts:88): a failure of the manager rejects
\* the call, a token is sent to the rating endpoint.
RatesTokenAcquiredRetries(t) ==
  /\ op[t] = "getRates"
  /\ rates[t].stage \in {"token", "retryToken"}
  /\ TokenOutcome(t).state # "pending"
  /\ IF TokenOutcome(t).state = "rejected"
       THEN /\ rates' = [rates EXCEPT ![t].forced = @ + 1]
            /\ EnterGetAccessToken(t, cachedToken)
            /\ UNCHANGED <<config, retry, app, route, health, tokenState, now, clears, op>>
       ELSE /\ IF rates[t].stage = "token"
                 THEN rates' = [rates EXCEPT ![t].stage = "api",
                                             ![t].tokens = Append(@, TokenOutcome(t).value),
                                             ![t].wire = FirstCall(t).wire,
                                             ![t].calls = Append(@, FirstCall(t))]
                 ELSE rates' = [rates EXCEPT ![t].stage = "retryApi",
                                             ![t].tokens = Append(@, TokenOutcome(t).value),
                                             ![t].calls = Append(@, RetryCall(t))]
            /\ UNCHANGED <<config, retry, app, route, health, tokenState, authVars, now, clears, op, pc, awaited, tokenResult, issued>>
RatesTokenAcquired(t) ==
  /\ op[t] = "getRates"
  /\ rates[t].stage \in {"token", "retryToken"}
  /\ TokenOutcome(t).state # "pending"
  /\ IF TokenOutcome(t).state = "rejected"
       THEN rates' = [rates EXCEPT ![t].stage = "done",
                                   ![t].result = RatesRejected(TokenOutcome(t).error)]
       ELSE IF rates[t].stage = "token"
         THEN rates' = [rates EXCEPT ![t].stage = "api",
                                     ![t].tokens = Append(@, TokenOutcome(t).value),
                                     ![t].wire = FirstCall(t).wire,
                                     ![t].calls = Append(@, FirstCall(t))]
         ELSE rates' = [rates EXCEPT ![t].stage = "retryApi",
                                     ![t].tokens = Append(@, TokenOutcome(t).value),
                                     ![t].calls = Append(@, RetryCall(t))]
  /\ UNCHANGED <<config, retry, app, route, health, tokenState, authVars, now, clears, op, pc, awaited, tokenResult, issued>>

\* Failures of one getRates() are distinct objects.
CallOrigin(t) == -(2 * (t - 1) + Len(rates[t].calls))

\* callRatingApi() threw e: the catch block of getRates(), service.ts:86-92.
RatingFailsRetryAgain(t, e, a) ==
  IF IsAuthError(e)
    THEN /\ rates' = [rates EXCEPT ![t].stage = "retryToken",
                                   ![t].answers = Append(@, a),
                                   ![t].errors = Append(@, e),
                                   ![t].forced = @ + 1]
         /\ EnterGetAccessToken(t, NullToken)
    ELSE /\ rates' = [rates EXCEPT ![t].stage = "done",
                                   ![t].answers = Append(@, a),
                                   ![t].errors = Append(@, e),
                                   ![t].result = RatesRejected(e)]
         /\ UNCHANGED <<authVars, pc, awaited, tokenResult, issued>>
RatingFails(t, e, a) ==
  IF rates[t].stage = "api" /\ IsAuthError(e)
    THEN /\ rates' = [rates EXCEPT ![t].stage = "retryToken",
                                   ![t].answers = Append(@, a),
                                   ![t].errors = Append(@, e),
                                   ![t].forced = @ + 1]
         /\ EnterGetAccessToken(t, NullToken)
    ELSE /\ rates' = [rates EXCEPT ![t].stage = "done",
                                   ![t].answers = Append(@, a),
                                   ![t].errors = Append(@, e),
                                   ![t].result = RatesRejected(e)]
         /\ UNCHANGED <<authVars, pc, awaited, tokenResult, issued>>

\* The rating endpoint answers 2xx, service.ts:144-161 and 96.
RatingRespondOkNoCheck(t, body) ==
  /\ rates[t].stage \in {"api", "retryApi"}
  /\ rates' = [rates EXCEPT ![t].stage = "done",
                            ![t].answers = Append(@, Answered(body)),
                            ![t].response = body,
                            ![t].result = FromUPSRateResponse(body, t)]
  /\ UNCHANGED <<authVars, pc, awaited, tokenResult, issued>>
  /\ UNCHANGED <<config, retry, app, route, health, tokenState, now, clears, op>>
RatingRespondOk(t, body) ==
  /\ rates[t].stage \in {"api", "retryApi"}
  /\ IF body.RatedShipment = "missing"
       THEN RatingFails(t, Err("ResponseParsingError", 0, CallOrigin(t)), Answered(body))
       ELSE /\ rates' = [rates EXCEPT ![t].stage = "done",
                                      ![t].answers = Append(@, Answered(body)),
                                      ![t].response = body,
                                      ![t].result = FromUPSRateResponse(body, t)]
            /\ UNCHANGED <<authVars, pc, awaited, tokenResult, issued>>
  /\ UNCHANGED <<config, retry, app, route, health, tokenState, now, clears, op>>

\* The POST to the rating URL fails, service.ts:162-169.
RatingRespondError(t, e) ==
  /\ rates[t].stage \in {"api", "retryApi"}
  /\ RatingFails(t, RatingCatch(e, CallOrigin(t)), Threw(e))
  /\ UNCHANGED <<config, retry, app, route, health, tokenState, now, clears, op>>

\* String.prototype.toUpperCase(), on the letters of the codes used.
UpperOf(c) ==
  CASE c = "u" -> "U" [] c = "s" -> "S" [] c = "c" -> "C" [] c = "a" -> "A"
    [] c = "f" -> "F" [] c = "r" -> "R" [] OTHER -> c
ToUpperCase(str) == [i \in 1..Len(str) |-> UpperOf(str[i])]
\* Array.prototype.includes()
Includes(list, x) == \E i \in 1..Len(list) : list[i] = x

\* supportsRoute(), service.ts:100-106.
SupportsRouteOriginOnly(originCountry, destinationCountry) ==
  LET supported == IF config.supportedCountries.isUndefined THEN << >>
                   ELSE config.supportedCountries.items
  IN  Includes(supported, ToUpperCase(originCountry))
SupportsRoute(originCountry, destinationCountry) ==
  LET supported == IF config.supportedCountries.isUndefined THEN << >>
                   ELSE config.supportedCountries.items
  IN  /\ Includes(supported, ToUpperCase(originCountry))
      /\ Includes(supported, ToUpperCase(destinationCountry))

\* A caller calls supportsRoute() and keeps what it returned.
SupportsRouteCall(o, d) ==
  /\ route' = [called |-> TRUE, origin |-> o, destination |-> d,
               result |-> SupportsRoute(o, d)]
  /\ UNCHANGED <<config, retry, app, tokenState, health, authVars, now, clears, taskVars>>

\* healthCheck() up to its await, service.ts:109-111.
HealthCheck(t) ==
  /\ CanCall(t)
  /\ Cardinality({ u \in Tasks : op[u] = "healthCheck" }) < MaxHealthChecks
  /\ op' = [op EXCEPT ![t] = "healthCheck"]
  /\ health' = [health EXCEPT ![t] = "pending"]
  /\ EnterGetAccessToken(t, cachedToken)
  /\ UNCHANGED <<config, retry, app, route, tokenState, now, clears, rates>>

\* healthCheck() resumes from `await getAccessToken()`, service.ts:111-115.
HealthCheckReturnsRethrows(t) ==
  /\ op[t] = "healthCheck"
  /\ health[t] = "pending"
  /\ TokenOutcome(t).state # "pending"
  /\ health' = [health EXCEPT ![t] =
       IF TokenOutcome(t).state = "fulfilled" THEN "true" ELSE "threw"]
  /\ UNCHANGED <<config, retry, app, route, tokenState, authVars, now, clears, taskVars>>
HealthCheckReturns(t) ==
  /\ op[t] = "healthCheck"
  /\ health[t] = "pending"
  /\ TokenOutcome(t).state # "pending"
  /\ health' = [health EXCEPT ![t] =
       IF TokenOutcome(t).state = "fulfilled" THEN "true" ELSE "false"]
  /\ UNCHANGED <<config, retry, app, route, tokenState, authVars, now, clears, taskVars>>

(***************************************************************************)
(* withRetry                                                               *)
(***************************************************************************)
\* The options withRetry() is called with.  maxRetries is a count; -1 stands
\* for the values below zero, with which the loop body never runs.
MaxRetriesOption == 2
RetryCounts == -1..MaxRetriesOption
\* What the operation can reject with, and the shouldRetry predicates: such a
\* predicate is the set of errors it returns true for (the default, for all).
OperationErrors == {"E1", "E2"}
RetryPolicies == SUBSET OperationErrors
\* The error object attempt k threw: each attempt throws an object of its own.
Thrown(id, k) == [thrown |-> TRUE, id |-> id, by |-> k]
ShouldRetry(r, e) == e.id \in r.shouldRetry

RECURSIVE Pow2(_)
Pow2(n) == IF n <= 0 THEN 1 ELSE 2 * Pow2(n - 1)
Min(a, b) == IF a < b THEN a ELSE b
\* utils/index.ts:42.
RetryDelay(r) == Min(r.initialDelayMs * Pow2(r.attempt), r.maxDelayMs)

\* The test of utils/index.ts:38 on the error of a failed attempt.
GivesUpIgnoresLast(r, e) == ~ShouldRetry(r, e)
GivesUpIgnoresShouldRetry(r, e) == r.attempt = r.maxRetries
GivesUp(r, e) == r.attempt = r.maxRetries \/ ~ShouldRetry(r, e)

\* The head of the loop, utils/index.ts:32-34, and the throw after it,
\* utils/index.ts:47: the operation is invoked when attempt <= maxRetries.
LoopHead(r) ==
  IF r.attempt <= r.maxRetries
    THEN [r EXCEPT !.stage = "calling",
                   !.log = Append(@, [kind |-> "call", ms |-> 0])]
    ELSE [r EXCEPT !.stage = "done", !.result = Rejected(r.lastError)]

\* withRetry(operation, options) up to its first await, utils/index.ts:14-34.
WithRetryCall(m, i, d, pol) ==
  /\ retry.stage = "none"
  /\ retry' = LoopHead([NoRetry EXCEPT !.maxRetries = m, !.initialDelayMs = i,
                                       !.maxDelayMs = d, !.shouldRetry = pol])
  /\ UNCHANGED <<config, app, route, health, tokenState, authVars, now, clears, taskVars>>

\* The promise of the operation fulfils: utils/index.ts:34 returns its value.
OperationResolves ==
  /\ retry.stage = "calling"
  /\ retry' = [retry EXCEPT
       !.stage = "done",
       !.outcomes = Append(@, Fulfilled(Len(retry.outcomes) + 1)),
       !.result = Fulfilled(Len(retry.outcomes) + 1)]
  /\ UNCHANGED <<config, app, route, health, tokenState, authVars, now, clears, taskVars>>

\* The operation throws or its promise rejects: the catch block,
\* utils/index.ts:35-44, up to the rethrow or the await of sleep().
OperationRejects(id) ==
  /\ retry.stage = "calling"
  /\ LET e == Thrown(id, Len(retry.outcomes) + 1)
         r == [retry EXCEPT !.lastError = e, !.outcomes = Append(@, Rejected(e))]
     IN  retry' =
           IF GivesUp(r, e)
             THEN [r EXCEPT !.stage = "done", !.result = Rejected(e)]
             ELSE [r EXCEPT !.stage = "sleeping",
                            !.log = Append(@, [kind |-> "sleep", ms |-> RetryDelay(r)])]
  /\ UNCHANGED <<config, app, route, health, tokenState, authVars, now, clears, taskVars>>

\* The timer of sleep() fires (utils/index.ts:11-13, 43) and the loop goes
\* round: attempt++ and the test of utils/index.ts:32.
SleepEnds ==
  /\ retry.stage = "sleeping"
  /\ retry' = LoopHead([retry EXCEPT !.attempt = @ + 1])
  /\ UNCHANGED <<config, app, route, health, tokenState, authVars, now, clears, taskVars>>

(***************************************************************************)
(* getConfig                                                               *)
(***************************************************************************)
MaxConfigCalls == 4
MaxResets == 1
\* The environments the process can run in.  The other variables the loaders
\* read are set to values the schemas accept.
Envs ==
  [NODE_ENV : {"undefined", "production", "bogus"},
   UPS_CLIENT_ID : {"undefined", "", "id-1", "id-2"}]

\* loadServiceConfig(), errors/index.ts:386-406: environment is one of the
\* three names and defaults to development (errors/index.ts:333).
LoadServiceConfig(env) ==
  IF env.NODE_ENV = "undefined" THEN [ok |-> TRUE, environment |-> "development"]
  ELSE IF env.NODE_ENV \in {"development", "staging", "production"}
    THEN [ok |-> TRUE, environment |-> env.NODE_ENV]
  ELSE [ok |-> FALSE, environment |-> "none"]
\* loadUPSConfig(), errors/index.ts:355-383: clientId is a string of at least
\* one character (errors/index.ts:292).
LoadUPSConfig(env) ==
  IF env.UPS_CLIENT_ID \in {"undefined", ""}
    THEN [ok |-> FALSE, clientId |-> "none"]
    ELSE [ok |-> TRUE, clientId |-> env.UPS_CLIENT_ID]
\* loadConfig(), errors/index.ts:409-415: a new object at every call, or the
\* ConfigurationError of the loader that failed first.
LoadConfig(env, n) ==
  IF LoadServiceConfig(env).ok /\ LoadUPSConfig(env).ok
    THEN Fulfilled([isNull |-> FALSE, object |-> n,
                    environment |-> LoadServiceConfig(env).environment,
                    clientId |-> LoadUPSConfig(env).clientId])
    ELSE Rejected(Err("ConfigurationError", 0, n))

\* getConfig(), errors/index.ts:420-424.
GetConfigCallAlwaysLoads ==
  /\ app.calls < MaxConfigCalls
  /\ LET loaded == LoadConfig(app.env, app.loads + 1)
     IN  app' = [app EXCEPT
           !.calls = @ + 1,
           !.loads = @ + 1,
           !.fresh = IF loaded.state = "fulfilled" THEN @ + 1 ELSE @,
           !.cachedConfig = IF loaded.state = "fulfilled" THEN loaded.value ELSE @,
           !.returned = loaded]
  /\ UNCHANGED <<config, retry, route, health, tokenState, authVars, now, clears, taskVars>>
GetConfigCall ==
  /\ app.calls < MaxConfigCalls
  /\ IF app.cachedConfig.isNull
       THEN LET loaded == LoadConfig(app.env, app.loads + 1)
            IN  app' = [app EXCEPT
                  !.calls = @ + 1,
                  !.loads = @ + 1,
                  !.fresh = IF loaded.state = "fulfilled" THEN @ + 1 ELSE @,
                  !.cachedConfig = IF loaded.state = "fulfilled" THEN loaded.value ELSE @,
                  !.returned = loaded]
       ELSE app' = [app EXCEPT !.calls = @ + 1,
                               !.returned = Fulfilled(app.cachedConfig)]
  /\ UNCHANGED <<config, retry, route, health, tokenState, authVars, now, clears, taskVars>>

\* resetConfigCache(), errors/index.ts:426-428.
ResetConfigCache ==
  /\ app.resets < MaxResets
  /\ app' = [app EXCEPT !.cachedConfig = NullConfig, !.resets = @ + 1, !.fresh = 0]
  /\ UNCHANGED <<config, retry, route, health, tokenState, authVars, now, clears, taskVars>>

\* The environment changes between two calls.
SetEnv(env) ==
  /\ env # app.env
  /\ app' = [app EXCEPT !.env = env]
  /\ UNCHANGED <<config, retry, route, health, tokenState, authVars, now, clears, taskVars>>

(***************************************************************************)
(* Specifications                                                          *)
(***************************************************************************)
\* Callers of getAccessToken() and forceRefresh() on one manager.
NextAuth ==
  \/ \E t \in Tasks : GetAccessToken(t)
  \/ \E t \in Tasks : ForceRefresh(t)
  \/ \E p \in Outstanding, body \in AuthBodies : AuthRespondOk(p, body)
  \/ \E p \in Outstanding, e \in AuthThrown : AuthRespondError(p, e)
  \/ \E t \in Tasks : Resume(t)
  \/ Tick

SpecAuth == Init /\ [][NextAuth]_vars

\* The same callers, and clearCache() and getTokenState() called at any moment.
Next ==
  \/ NextAuth
  \/ ClearCache
  \/ GetTokenStateCall

Spec == Init /\ [][Next]_vars

\* The same program when every POST to the token URL is eventually answered
\* or fails (auth.ts:73-81), and every continuation whose awaited promise has
\* settled is eventually run by the event loop (auth.ts:41-45).
AuthSettles(p) ==
  \/ \E body \in AuthBodies : AuthRespondOk(p, body)
  \/ \E e \in AuthThrown : AuthRespondError(p, e)
Fairness ==
  /\ \A p \in 1..NumTasks : WF_vars(AuthSettles(p))
  /\ \A t \in Tasks : WF_vars(Resume(t))
SpecLive == Init /\ [][Next]_vars /\ Fairness

\* Callers of getRates() and healthCheck() on one service, and callers of the
\* manager it uses.
NextRates ==
  \/ \E t \in Tasks, req \in RateRequests, id \in RequestIds : GetRates(t, req, id)
  \/ \E t \in Tasks : RatesTokenAcquired(t)
  \/ \E t \in Tasks, body \in RatingBodies : RatingRespondOk(t, body)
  \/ \E t \in Tasks, e \in RatingThrown : RatingRespondError(t, e)
  \/ \E t \in Tasks : HealthCheck(t)
  \/ \E t \in Tasks : HealthCheckReturns(t)
  \/ NextAuth

SpecRates == Init /\ [][NextRates]_vars

\* One invocation of withRetry() with any options, and an operation that
\* fulfils or rejects at each attempt.
NextRetry ==
  \/ \E m \in RetryCounts, i \in {1000}, d \in {1500, 30000}, pol \in RetryPolicies :
       WithRetryCall(m, i, d, pol)
  \/ OperationResolves
  \/ \E id \in OperationErrors : OperationRejects(id)
  \/ SleepEnds

SpecRetry == Init /\ [][NextRetry]_vars

\* Callers of getConfig() and resetConfigCache() in a process whose
\* environment may change.
NextConfig ==
  \/ GetConfigCall
  \/ ResetConfigCache
  \/ \E env \in Envs : SetEnv(env)

SpecConfig == Init /\ [][NextConfig]_vars

\* Callers of supportsRoute() on services configured with any allow-list.
NextRoute == \E o \in CountryArgs, d \in CountryArgs : SupportsRouteCall(o, d)

SpecRoute == InitRoute /\ [][NextRoute]_vars

(***************************************************************************)
(* Properties of the token manager                                         *)
(***************************************************************************)
HasCredentials == config.clientId # "" /\ config.clientSecret # ""
Called(t) == pc[t] # "idle"
\* The step in which task t issues its call of operation o.
Calls(t, o) == pc[t] = "idle" /\ pc'[t] # "idle" /\ op'[t] = o
\* The call of t has returned: the promise it was given has settled.
Returned(t) == Called(t) /\ TokenOutcome(t).state # "pending"
\* The getAccessToken() calls issued before the first refresh settled (no
\* Credential can be cached before that), and the refreshes they wait for.
FirstWave == { t \in Tasks : Called(t) /\ op[t] = "getAccessToken" /\ issued[t].settled = 0 }
FirstWaveRefreshes == { awaited[t] : t \in FirstWave }

C3_AtMostOneOutstanding == Cardinality(Outstanding) <= 1

\* The validity rule of C4, written out: now < expiresAt - 5 minutes.
C4_Valid ==
  /\ ~cachedToken.isNull
  /\ cachedToken.expiresAt # NaN
  /\ now < cachedToken.expiresAt - 5 * 60 * 1000

C5_AlwaysNewPost ==
  [][/\ \A t \in Tasks : Calls(t, "forceRefresh") =>
          Cardinality(Posted') = Cardinality(Posted) + 1
     /\ \A p \in Outstanding : refreshes'[p].state = "fulfilled" =>
          /\ ~cachedToken'.isNull
          /\ cachedToken'.accessToken = refreshes'[p].value]_vars

\* C5 as amended: a forceRefresh() issued while tokenRefreshPromise is null
\* starts a new refresh whether or not the cached Credential is valid, and
\* that refresh makes a POST when the client id and secret are configured;
\* issued while tokenRefreshPromise is set it joins that refresh.  The
\* Credential of a successful answer replaces the cached one.
C5_NewRefreshUnlessJoined ==
  [][/\ \A t \in Tasks : Calls(t, "forceRefresh") =>
          IF tokenRefreshPromise = NullPromise
            THEN /\ Len(refreshes') = Len(refreshes) + 1
                 /\ awaited'[t] = Len(refreshes')
                 /\ refreshes'[Len(refreshes')].posted = HasCredentials
            ELSE /\ refreshes' = refreshes
                 /\ awaited'[t] = tokenRefreshPromise
     /\ \A p \in Outstanding : refreshes'[p].state = "fulfilled" =>
          /\ ~cachedToken'.isNull
          /\ cachedToken'.accessToken = refreshes'[p].value]_vars

\* forceRefresh() was called while a valid Credential was cached, and the
\* answer to its POST is now the cached Credential.
C5_Witness ==
  /\ op[1] = "getAccessToken" /\ op[2] = "forceRefresh"
  /\ issued[2].pending = {}
  /\ refreshes[1].state = "fulfilled" /\ refreshes[1].value # Undefined
  /\ Len(refreshes) = 2 /\ refreshes[2].state = "fulfilled"
  /\ cachedToken.accessToken = 2
  /\ pc[2] = "resolved" /\ tokenResult[2] = Fulfilled(2)

C7_NeverReplayed ==
  [][\A t \in Tasks : Calls(t, "getAccessToken") =>
       \A p \in RefreshIds : refreshes[p].state = "rejected" =>
         /\ awaited'[t] # p
         /\ (~C4_Valid /\ Outstanding = {}) =>
               Cardinality(Posted') = Cardinality(Posted) + 1]_vars

\* C7 as amended: the marker is cleared when the caller that started the
\* refresh resumes from its await, on success and on failure alike; until
\* then a settled promise can still be the marker.  A getAccessToken() call
\* issued with the marker null is never handed an earlier promise: it returns
\* the valid cached token or starts a fresh refresh, which makes a POST when
\* the client id and secret are configured.
C7_ClearedOnResume ==
  [][/\ \A t \in Tasks : (pc[t] = "awaiting" /\ pc'[t] = "resolved") =>
          /\ tokenRefreshPromise' = NullPromise
          /\ tokenResult'[t] = Outcome(awaited[t])
     /\ (tokenRefreshPromise' # NullPromise /\ tokenRefreshPromise' \in Settled') =>
          \E t \in Tasks : pc'[t] = "awaiting" /\ awaited'[t] = tokenRefreshPromise'
     /\ \A t \in Tasks : (Calls(t, "getAccessToken") /\ tokenRefreshPromise = NullPromise) =>
          IF C4_Valid
            THEN awaited'[t] = NullPromise
            ELSE /\ awaited'[t] = Len(refreshes) + 1
                 /\ Len(refreshes') = Len(refreshes) + 1
                 /\ refreshes'[Len(refreshes')].posted = HasCredentials]_vars

\* The first refresh failed, its caller resumed, and the next call started a
\* second POST.
C7_Witness ==
  /\ Len(refreshes) = 2
  /\ refreshes[1].state = "rejected" /\ refreshes[1].posted
  /\ pc[1] = "resolved" /\ tokenResult[1].state = "rejected"
  /\ op[2] = "getAccessToken" /\ awaited[2] = 2 /\ refreshes[2].posted
  /\ tokenRefreshPromise = 2

(***************************************************************************)
(* Properties of the rate service                                          *)
(***************************************************************************)
RateCallers == { t \in Tasks : op[t] = "getRates" }
\* The k-th rating call of t was answered with HTTP 401 or 403.
AuthFailure(t, k) == Len(rates[t].answers) >= k /\ rates[t].answers[k].status \in {401, 403}
\* The k-th rating call of t was answered 2xx with a UPSRateResponse: a list
\* of rated shipments that each carry their Service.
Succeeded(t, k) ==
  /\ Len(rates[t].answers) >= k
  /\ rates[t].answers[k].status = 200
  /\ rates[t].answers[k].body.RatedShipment = "list"
  /\ \A i \in 1..Len(rates[t].answers[k].body.entries) :
       rates[t].answers[k].body.entries[i].hasService
\* The quotes a list of rated shipments maps to.
MappedQuotes(entries, q) ==
  /\ Len(q) = Len(entries)
  /\ \A i \in 1..Len(entries) :
       /\ q[i].carrierServiceCode = entries[i].Code
       /\ q[i].amount = entries[i].MonetaryValue.units * 100 + entries[i].MonetaryValue.hundredths
       /\ q[i].currency = entries[i].CurrencyCode

\* C8: when the first rating call of getRates() is answered 401 or 403,
\* getRates() calls forceRefresh() once; when that returns a token it repeats
\* the rating call once, with the wire request and correlation id of the
\* first call and the token forceRefresh() returned; when the repeated call
\* is answered with a list of rated shipments getRates() returns its mapping.
C8_RetriesOnceWithFreshToken ==
  \A t \in RateCallers : AuthFailure(t, 1) =>
    /\ rates[t].forced = 1
    /\ Len(rates[t].calls) <= 2
    /\ rates[t].stage = "retryToken" => Len(rates[t].calls) = 1
    /\ rates[t].stage = "retryApi" =>
         /\ TokenOutcome(t).state = "fulfilled"
         /\ Len(rates[t].calls) = 2 /\ Len(rates[t].answers) = 1
    /\ Len(rates[t].calls) = 2 =>
         /\ rates[t].calls[2].wire = rates[t].calls[1].wire
         /\ rates[t].calls[2].transId = rates[t].calls[1].transId
         /\ rates[t].calls[2].transId = rates[t].requestId
         /\ TokenOutcome(t).state = "fulfilled"
         /\ rates[t].calls[2].token = TokenOutcome(t).value
    /\ Succeeded(t, 2) =>
         /\ rates[t].stage = "done"
         /\ rates[t].result.state = "fulfilled"
         /\ MappedQuotes(rates[t].answers[2].body.entries, rates[t].result.quotes)

\* A first call answered 403 was repeated with the token of a second refresh,
\* and the answer to the repeated call was mapped.
C8_Witness ==
  \E t \in RateCallers :
    /\ Len(rates[t].answers) = 2
    /\ rates[t].answers[1].status = 403
    /\ Len(rates[t].calls) = 2
    /\ rates[t].calls[1].token = 1 /\ rates[t].calls[2].token = 2
    /\ rates[t].calls[2].wire.RequestOption = "Rate"
    /\ Succeeded(t, 2)
    /\ rates[t].result.state = "fulfilled" /\ Len(rates[t].result.quotes) = 1

\* C9: when the repeated rating call fails too, getRates() makes no third
\* rating call and no second forceRefresh() and rejects with the second
\* failure, a CarrierApiError with httpStatus 401 for a second 401; no
\* getRates() makes more than two rating calls.
C9_NoThirdCall ==
  \A t \in RateCallers :
    /\ Len(rates[t].calls) <= 2
    /\ rates[t].forced <= 1
    /\ Len(rates[t].errors) = 2 =>
         /\ rates[t].stage = "done"
         /\ Len(rates[t].calls) = 2 /\ rates[t].forced = 1
         /\ Len(rates[t].tokens) = 2
         /\ rates[t].result.state = "rejected"
         /\ rates[t].result.error = rates[t].errors[2]
         /\ rates[t].errors[2] # rates[t].errors[1]
         /\ rates[t].answers[2].status = 401 =>
              /\ rates[t].result.error.kind = "CarrierApiError"
              /\ rates[t].result.error.httpStatus = 401

\* The first call was answered 401 and the repeated call 401 again.
C9_Witness ==
  \E t \in RateCallers :
    /\ Len(rates[t].answers) = 2
    /\ rates[t].answers[1].status = 401 /\ rates[t].answers[2].status = 401
    /\ rates[t].stage = "done"
    /\ rates[t].result.error.httpStatus = 401

\* The class of a failure of the first rating call other than 401/403.
C10_Kind(a) ==
  IF a.status = 200 THEN "ResponseParsingError"
  ELSE IF a.status = 429 THEN "RateLimitError"
  ELSE IF a.status # 0 THEN "CarrierApiError"
  ELSE IF a.code \in {"ECONNABORTED", "ETIMEDOUT"} THEN "TimeoutError"
  ELSE "NetworkError"

\* C10: when the first rating call fails with anything but HTTP 401/403,
\* getRates() has made exactly one rating call and no forceRefresh(), and
\* rejects with that failure at once.
C10_OnlyAuthFailureRetried ==
  \A t \in RateCallers :
    ( /\ Len(rates[t].answers) >= 1
      /\ ~AuthFailure(t, 1)
      /\ ~(rates[t].answers[1].status = 200
             /\ rates[t].answers[1].body.RatedShipment # "missing") ) =>
    /\ rates[t].stage = "done"
    /\ Len(rates[t].calls) = 1 /\ Len(rates[t].answers) = 1
    /\ rates[t].forced = 0 /\ Len(rates[t].tokens) = 1
    /\ rates[t].result = RatesRejected(rates[t].errors[1])
    /\ rates[t].errors[1].kind = C10_Kind(rates[t].answers[1])
    /\ rates[t].errors[1].httpStatus =
         (IF C10_Kind(rates[t].answers[1]) = "CarrierApiError"
            THEN rates[t].answers[1].status ELSE 0)

\* A first call answered 404 (a 4xx that is not an authentication failure)
\* ended getRates() while another caller's refresh was still unanswered.
C10_Witness ==
  \E t \in RateCallers :
    /\ rates[t].answers = <<Threw(AxiosErr("ERR_BAD_REQUEST", 404))>>
    /\ rates[t].result.error.kind = "CarrierApiError"
    /\ rates[t].stage = "done"
    /\ Len(refreshes) = 2 /\ 2 \in Outstanding

\* The number of constraints of RateRequestSchema a request violates: a
\* missing city and a country code that is not 2 characters long in either
\* address, an empty package list, and each weight that is not in (0, 150].
C11_Count(b) == IF b THEN 1 ELSE 0
C11_Violations(r) ==
  C11_Count(r.origin.city = "undefined") + C11_Count(Len(r.origin.countryCode) # 2)
  + C11_Count(r.destination.city = "undefined") + C11_Count(Len(r.destination.countryCode) # 2)
  + C11_Count(Len(r.packages) = 0)
  + Cardinality({ j \in 1..Len(r.packages) : r.packages[j] <= 0 \/ r.packages[j] > 150 })

\* C11: a getRates() call with a request that violates a constraint is
\* rejected with a ValidationError carrying one issue, with a path and a
\* message, per violated constraint; the call asks the manager for no token,
\* makes no rating call, then or later, and leaves cachedToken,
\* tokenRefreshPromise and the refreshes as they were.
C11_InvalidRequestNoNetwork ==
  [][\A t \in Tasks :
       (op'[t] = "getRates" /\ C11_Violations(rates'[t].request) > 0) =>
         /\ rates'[t].stage = "done"
         /\ rates'[t].result.state = "rejected"
         /\ rates'[t].result.error.kind = "ValidationError"
         /\ Cardinality(rates'[t].issues) = C11_Violations(rates'[t].request)
         /\ \A i \in rates'[t].issues : i.at # "" /\ i.message # ""
         /\ rates'[t].calls = << >> /\ rates'[t].tokens = << >> /\ rates'[t].forced = 0
         /\ awaited'[t] = NullPromise
         /\ op[t] = "none" => UNCHANGED <<cachedToken, tokenRefreshPromise, refreshes>>]_vars

\* A request with three violations was rejected with three issues while a
\* Credential was cached, and no refresh but the first was ever started.
C11_Witness ==
  \E t \in RateCallers :
    /\ Cardinality(rates[t].issues) = 3
    /\ \E i \in rates[t].issues : i.message = "too_big" /\ i.index = 2
    /\ rates[t].result.error.kind = "ValidationError"
    /\ ~cachedToken.isNull
    /\ Len(refreshes) = 1

\* The classified errors a failed refresh can end with.
C12_AuthKinds == {"InvalidCredentialsError", "AuthenticationError", "TimeoutError", "NetworkError"}

\* C12: getRates() waits for the token it asked for; when that acquisition
\* fails, be it the initial getAccessToken() or the forceRefresh() of the
\* auth-retry, getRates() rejects with the very error of the failed refresh,
\* starts no other refresh and makes no rating call, then or later.
C12_TokenFailurePropagates ==
  [][\A t \in Tasks :
       /\ (rates[t].stage \in {"token", "retryToken"} /\ rates'[t] # rates[t]) =>
            /\ TokenOutcome(t).state # "pending"
            /\ TokenOutcome(t).state = "rejected" =>
                 /\ rates'[t].stage = "done"
                 /\ rates'[t].result = RatesRejected(refreshes[awaited[t]].error)
                 /\ rates'[t].result.error.kind \in C12_AuthKinds
                 /\ rates'[t].result.error.origin = awaited[t]
                 /\ rates'[t].calls = rates[t].calls
                 /\ rates'[t].forced = rates[t].forced
                 /\ UNCHANGED <<cachedToken, tokenRefreshPromise, refreshes>>
       /\ rates[t].stage = "done" => rates'[t] = rates[t]]_vars

\* The forceRefresh() of the auth-retry failed with an HTTP 500 and getRates()
\* ended with that AuthenticationError after its one rating call.
C12_Witness ==
  \E t \in RateCallers :
    /\ rates[t].stage = "done"
    /\ rates[t].forced = 1 /\ Len(rates[t].calls) = 1 /\ Len(rates[t].tokens) = 1
    /\ rates[t].result.error.kind = "AuthenticationError"
    /\ rates[t].result.error.httpStatus = 500

\* C13: a 2xx answer of the rating endpoint whose body has no RatedShipment
\* rejects getRates() with a ResponseParsingError, which is not retryable; it
\* is the last rating call of that getRates() and starts no forceRefresh().
C13_MissingListIsParsingError ==
  \A t \in RateCallers : \A k \in 1..Len(rates[t].answers) :
    (rates[t].answers[k].status = 200
       /\ rates[t].answers[k].body.RatedShipment = "missing") =>
      /\ k = Len(rates[t].answers) /\ k = Len(rates[t].calls)
      /\ rates[t].stage = "done"
      /\ rates[t].result.state = "rejected"
      /\ rates[t].result.error.kind = "ResponseParsingError"
      /\ rates[t].result.error = rates[t].errors[k]
      /\ ~IsRetryable(rates[t].result.error)
      /\ IsCarrierServiceError(rates[t].result.error)
      /\ rates[t].forced = k - 1
      /\ Len(rates[t].tokens) = k

\* The first rating call was answered 2xx without RatedShipment.
C13_Witness ==
  \E t \in RateCallers :
    /\ Len(rates[t].answers) = 1
    /\ rates[t].answers[1].status = 200
    /\ rates[t].answers[1].body.RatedShipment = "missing"
    /\ rates[t].result.error.kind = "ResponseParsingError"
    /\ Len(refreshes) = 1

\* C14 as stated: every error getRates() rejects with is an instance of
\* CarrierServiceError, whatever the request, the failure of the transport
\* and the body of a 2xx answer.
C14_OnlyClassifiedFailures ==
  \A t \in RateCallers :
    rates[t].result.state = "rejected" => IsCarrierServiceError(rates[t].result.error)

(***************************************************************************)
(* Further properties of the token manager                                 *)
(***************************************************************************)
\* C15 as stated: whenever cachedToken is not null it has an accessToken
\* string, a well-defined expiresAt and a tokenType, whatever body the token
\* endpoint sent with status 200.
C15_AbsentOrComplete ==
  cachedToken.isNull \/
    /\ cachedToken.accessToken # Undefined
    /\ cachedToken.expiresAt # NaN
    /\ cachedToken.tokenType # "undefined"

\* C16 as stated: when clearCache() was called while a refresh was in
\* flight, the answer to that refresh's POST does not populate the cache.
\* The case checked is the first refresh: while it is the only refresh ever
\* started and its POST is unanswered, only clearCache() can have dropped the
\* marker that refers to it.
C16_Forgotten(p) ==
  /\ Len(refreshes) = 1
  /\ p \in Outstanding
  /\ tokenRefreshPromise = NullPromise
C16_ForgottenResultDiscarded ==
  [][\A p \in RefreshIds :
       (C16_Forgotten(p) /\ refreshes'[p].state = "fulfilled")
         => cachedToken' = cachedToken]_vars

\* C17: every clearCache() step, whatever the state it is taken in, ends in
\* a state where getTokenState() reports hasToken = false and isValid = false
\* and tokenRefreshPromise is null.
C17_ClearCacheDropsAll ==
  [][clears' # clears =>
       /\ GetTokenState'.hasToken = FALSE
       /\ GetTokenState'.isValid = FALSE
       /\ tokenRefreshPromise' = NullPromise]_vars
\* clearCache() was called after a token had been cached and while another
\* refresh was in flight, and nothing has repopulated the cache since.
C17_Witness ==
  /\ clears > 0
  /\ \E p \in RefreshIds : refreshes[p].state = "fulfilled"
  /\ Outstanding # {}
  /\ GetTokenState.hasToken = FALSE
  /\ tokenRefreshPromise = NullPromise

\* C18: a getTokenState() call changes neither cachedToken nor
\* tokenRefreshPromise and starts no refresh; it reports hasToken = a
\* Credential is cached, expiresAt = that Credential's expiry, and isValid =
\* isTokenValid() at the time of the call, so that isValid implies hasToken,
\* and both are false while no refresh has ever been fulfilled.
C18_GetTokenStateReadOnly ==
  [][tokenState' # tokenState =>
       /\ cachedToken' = cachedToken
       /\ tokenRefreshPromise' = tokenRefreshPromise
       /\ refreshes' = refreshes
       /\ tokenState'.hasToken = ~cachedToken.isNull
       /\ tokenState'.hasToken => tokenState'.expiresAt = cachedToken.expiresAt
       /\ tokenState'.isValid = IsTokenValid(cachedToken, now)
       /\ tokenState'.isValid => tokenState'.hasToken
       /\ (\A p \in RefreshIds : refreshes[p].state # "fulfilled")
            => ~tokenState'.hasToken /\ ~tokenState'.isValid]_vars
\* getTokenState() was called with a refresh in flight and a complete but
\* expired Credential in the cache, and reported it as cached and not valid.
C18_Witness ==
  /\ tokenState.called
  /\ tokenState.hasToken
  /\ tokenState.expiresAt # NaN
  /\ ~tokenState.isValid
  /\ Outstanding # {}
  /\ tokenRefreshPromise # NullPromise

\* C19: with an empty client identifier or client secret, every refresh is
\* rejected with InvalidCredentialsError from the moment it is started and
\* makes no POST; no step changes the cache; the marker refers to a refresh
\* only until the caller that started it resumes, and that caller's promise
\* is rejected with InvalidCredentialsError.
C19_MissingCredentialsFailFast ==
  [][~HasCredentials =>
       /\ \A p \in 1..Len(refreshes') :
            /\ refreshes'[p].state = "rejected"
            /\ refreshes'[p].error.kind = "InvalidCredentialsError"
            /\ ~refreshes'[p].posted
       /\ cachedToken' = cachedToken
       /\ \A t \in Tasks :
            (pc[t] = "awaiting" /\ pc'[t] = "resolved") =>
              /\ tokenRefreshPromise' = NullPromise
              /\ tokenResult'[t].state = "rejected"
              /\ tokenResult'[t].error.kind = "InvalidCredentialsError"
       /\ tokenRefreshPromise' # NullPromise =>
            \E t \in Tasks : pc'[t] = "awaiting" /\ awaited'[t] = tokenRefreshPromise']_vars
\* The client secret is empty; a getAccessToken() call started a refresh and
\* has returned with InvalidCredentialsError, no POST was made, the cache is
\* empty and the marker is null again.
C19_Witness ==
  /\ config.clientId # "" /\ config.clientSecret = ""
  /\ op[1] = "getAccessToken" /\ pc[1] = "resolved"
  /\ tokenResult[1].state = "rejected"
  /\ tokenResult[1].error.kind = "InvalidCredentialsError"
  /\ Len(refreshes) >= 1 /\ Posted = {}
  /\ cachedToken.isNull
  /\ tokenRefreshPromise = NullPromise

\* The refreshes whose POST failed, each with what the HTTP client threw.
C20_Failed == { p \in RefreshIds : refreshes[p].state = "rejected" /\ refreshes[p].posted }
\* The class and HTTP status C20 gives for a thrown error, as stated.
C20_StatedClass(e) ==
  IF e.status \in {401, 403} THEN [kind |-> "InvalidCredentialsError", httpStatus |-> 0]
  ELSE IF e.status # 0 THEN [kind |-> "AuthenticationError", httpStatus |-> e.status]
  ELSE IF e.code \in {"ECONNABORTED", "ETIMEDOUT"} THEN [kind |-> "TimeoutError", httpStatus |-> 0]
  ELSE IF e.code \in {"ECONNREFUSED", "ENOTFOUND"} THEN [kind |-> "NetworkError", httpStatus |-> 0]
  ELSE [kind |-> "AuthenticationError", httpStatus |-> 0]
\* The same, with a transport error that has no response and no listed code
\* classified as NetworkError.
C20_AmendedClass(e) ==
  IF e.isAxios /\ e.status = 0 /\ e.code \notin {"ECONNABORTED", "ETIMEDOUT"}
    THEN [kind |-> "NetworkError", httpStatus |-> 0]
    ELSE C20_StatedClass(e)
C20_RetryableAsStated(x) ==
  /\ x.kind = "InvalidCredentialsError" => ~IsRetryable(x)
  /\ x.kind \in {"TimeoutError", "NetworkError"} => IsRetryable(x)

\* C20 as stated: every failed authentication call is rejected with the class
\* the claim lists for what was thrown, anything unlisted being wrapped as
\* AuthenticationError.
C20_ClassifiedAsStated ==
  \A p \in C20_Failed :
    /\ refreshes[p].error.kind = C20_StatedClass(refreshes[p].thrown).kind
    /\ refreshes[p].error.httpStatus = C20_StatedClass(refreshes[p].thrown).httpStatus
    /\ C20_RetryableAsStated(refreshes[p].error)
\* C20, amended: HTTP 401/403 gives InvalidCredentialsError (not retryable);
\* any other HTTP status gives AuthenticationError carrying that status;
\* timeout codes give TimeoutError (retryable); connection-refused, DNS-failure
\* and every other error of the HTTP client that carries no response give
\* NetworkError (retryable); anything that is not an error of the HTTP client
\* is wrapped as AuthenticationError.
C20_Classified ==
  \A p \in C20_Failed :
    /\ refreshes[p].error.kind = C20_AmendedClass(refreshes[p].thrown).kind
    /\ refreshes[p].error.httpStatus = C20_AmendedClass(refreshes[p].thrown).httpStatus
    /\ C20_RetryableAsStated(refreshes[p].error)
\* One authentication call failed with a connection reset and another was
\* answered 403.
C20_Witness ==
  \E p, q \in C20_Failed :
    /\ refreshes[p].thrown = AxiosErr("ECONNRESET", 0)
    /\ refreshes[p].error.kind = "NetworkError"
    /\ refreshes[q].thrown = AxiosErr("ERR_BAD_REQUEST", 403)
    /\ refreshes[q].error.kind = "InvalidCredentialsError"

(***************************************************************************)
(* Classification of the failures of the rating call                       *)
(***************************************************************************)
\* The rating calls of task t that have ended, by position.
Ended(t) == 1..Len(rates[t].answers)

\* The response has no retry-after header, or an empty one.
C21_NoValue(h) == h.absent \/ (h.lead = << >> /\ h.rest = "")

\* C21 as stated: a rating call answered 429 fails with a RateLimitError that
\* is retryable and whose retryAfterSeconds is the number the retry-after
\* header carries when the header has a value, and undefined when it has
\* none; getRates() rejects with that error.
C21_RateLimit ==
  \A t \in RateCallers : \A k \in Ended(t) :
    rates[t].answers[k].status = 429 =>
      /\ rates[t].errors[k].kind = "RateLimitError"
      /\ IsRetryable(rates[t].errors[k])
      /\ rates[t].result = RatesRejected(rates[t].errors[k])
      /\ IF C21_NoValue(rates[t].answers[k].retryAfter)
           THEN rates[t].errors[k].retryAfterSeconds = Undefined
           ELSE /\ rates[t].errors[k].retryAfterSeconds # NaN
                /\ rates[t].answers[k].retryAfter.lead # << >> =>
                     rates[t].errors[k].retryAfterSeconds =
                       DigitsValue(rates[t].answers[k].retryAfter.lead)

\* C22: a rating call that fails with a response whose status is not 429
\* fails with a CarrierApiError carrying that status, retryable exactly when
\* the status is 500 or more: not for 400, 401, 403 and 404.
C22_CarrierApiError ==
  \A t \in RateCallers : \A k \in Ended(t) :
    (rates[t].answers[k].isAxios /\ rates[t].answers[k].status \notin {0, 429}) =>
      /\ rates[t].errors[k].kind = "CarrierApiError"
      /\ rates[t].errors[k].httpStatus = rates[t].answers[k].status
      /\ IsRetryable(rates[t].errors[k]) <=> rates[t].answers[k].status >= 500
      /\ rates[t].answers[k].status \in {400, 401, 403, 404} => ~IsRetryable(rates[t].errors[k])
\* A getRates() whose first rating call was answered 403 and whose repeated
\* call was answered 500 has failed with a retryable CarrierApiError of
\* status 500, after a CarrierApiError of status 403.
C22_Witness ==
  \E t \in RateCallers :
    /\ Len(rates[t].answers) = 2
    /\ rates[t].answers[1].status = 403 /\ rates[t].answers[2].status = 500
    /\ rates[t].errors[1].kind = "CarrierApiError" /\ rates[t].errors[1].httpStatus = 403
    /\ rates[t].result.state = "rejected"
    /\ rates[t].result.error.kind = "CarrierApiError"
    /\ rates[t].result.error.httpStatus = 500
    /\ IsRetryable(rates[t].result.error)

\* C23 as stated: when the body of a failed rating call's response supplies
\* an error entry, the CarrierApiError raised for it carries that entry's
\* code as carrierErrorCode.
C23_CarrierErrorCode ==
  \A t \in RateCallers : \A k \in Ended(t) :
    (rates[t].answers[k].isAxios /\ rates[t].answers[k].status \notin {0, 429}
       /\ rates[t].answers[k].errorCode # "undefined") =>
      rates[t].errors[k].carrierErrorCode = rates[t].answers[k].errorCode

\* C24: a rating call that fails without a response fails with TimeoutError,
\* retryable and carrying config.timeoutMs, when the HTTP client reports a
\* timeout; with NetworkError, retryable, when it reports a refused or reset
\* connection or a DNS failure; and with NetworkError for every other error,
\* of the HTTP client or not.
C24_TransportFailures ==
  \A t \in RateCallers : \A k \in Ended(t) :
    (rates[t].answers[k].status = 0) =>
      IF rates[t].answers[k].isAxios /\ rates[t].answers[k].code \in {"ECONNABORTED", "ETIMEDOUT"}
        THEN /\ rates[t].errors[k].kind = "TimeoutError"
             /\ rates[t].errors[k].timeoutMs = config.timeoutMs
             /\ IsRetryable(rates[t].errors[k])
        ELSE /\ rates[t].errors[k].kind = "NetworkError"
             /\ IsRetryable(rates[t].errors[k])
\* On a service configured with a timeout of 5000 ms, a getRates() whose
\* first rating call was answered 401 and whose repeated call timed out has
\* failed with a TimeoutError carrying 5000.
C24_Witness ==
  /\ config.timeoutMs = 5000
  /\ \E t \in RateCallers :
       /\ Len(rates[t].answers) = 2
       /\ rates[t].answers[2].code = "ETIMEDOUT"
       /\ rates[t].result.state = "rejected"
       /\ rates[t].result.error.kind = "TimeoutError"
       /\ rates[t].result.error.timeoutMs = 5000

\* The error objects of a state, and one error of each class of the taxonomy
\* (a CarrierApiError for each of several statuses) and one plain Error.
C25_Arisen ==
  { refreshes[p].error : p \in { q \in RefreshIds : refreshes[q].state = "rejected" } }
  \cup UNION { { rates[t].errors[k] : k \in 1..Len(rates[t].errors) } : t \in Tasks }
  \cup { rates[t].result.error : t \in { u \in Tasks : rates[u].result.state = "rejected" } }
C25_Samples ==
  { Err(k, 0, 0) : k \in (ClassifiedKinds \ {"CarrierApiError"}) \cup {"Error"} }
  \cup { Err("CarrierApiError", st, 0) : st \in {400, 401, 403, 404, 429, 499, 500, 503} }
C25_Never ==
  {"ValidationError", "InvalidCredentialsError", "AuthenticationError",
   "ResponseParsingError", "ConfigurationError"}
C25_Always == {"TimeoutError", "NetworkError", "RateLimitError"}

\* C25: an error of a never-retryable class is not retryable, one of an
\* always-retryable class is, a CarrierApiError is retryable exactly when its
\* status is 500 or more or 429, isRetryableError() agrees with the flag for
\* each of them and is false for an error outside the taxonomy.
C25_Retryability ==
  \A e \in C25_Arisen \cup C25_Samples :
    /\ e.kind \in C25_Never => ~IsRetryable(e) /\ ~IsRetryableError(e)
    /\ e.kind \in C25_Always => IsRetryable(e) /\ IsRetryableError(e)
    /\ e.kind = "CarrierApiError" =>
         /\ IsRetryable(e) <=> (e.httpStatus >= 500 \/ e.httpStatus = 429)
         /\ IsRetryableError(e) <=> (e.httpStatus >= 500 \/ e.httpStatus = 429)
    /\ e.kind \notin C25_Never \cup C25_Always \cup {"CarrierApiError"} => ~IsRetryableError(e)
\* A refresh has failed with AuthenticationError, and a getRates() has failed
\* with a CarrierApiError of status 500 after one of status 401.
C25_Witness ==
  /\ \E p \in RefreshIds : refreshes[p].error.kind = "AuthenticationError"
  /\ \E t \in RateCallers :
       /\ Len(rates[t].errors) = 2
       /\ rates[t].errors[1].kind = "CarrierApiError" /\ rates[t].errors[1].httpStatus = 401
       /\ rates[t].result.state = "rejected"
       /\ rates[t].result.error.kind = "CarrierApiError"
       /\ rates[t].result.error.httpStatus = 500

(***************************************************************************)
(* healthCheck() and supportsRoute()                                       *)
(***************************************************************************)
HealthCallers == { t \in Tasks : op[t] = "healthCheck" }

\* C26: a healthCheck() call makes no rating call; it returns a boolean and
\* never throws; what it returns is true when the getAccessToken() call it
\* made was fulfilled and false when that call was rejected, whatever the
\* failure.
C26_HealthCheck ==
  \A t \in HealthCallers :
    /\ rates[t] = NoRates
    /\ health[t] \in {"pending", "true", "false"}
    /\ health[t] = "pending" \/ TokenOutcome(t).state # "pending"
    /\ health[t] = "true" <=> (health[t] # "pending" /\ TokenOutcome(t).state = "fulfilled")
    /\ health[t] = "false" <=> (health[t] # "pending" /\ TokenOutcome(t).state = "rejected")
\* A healthCheck() whose token request timed out has returned false, while a
\* getRates() of another caller is waiting for the rating endpoint.
C26_Witness ==
  \E t \in HealthCallers :
    /\ health[t] = "false"
    /\ TokenOutcome(t).error.kind = "TimeoutError"
    /\ \E u \in RateCallers : rates[u].stage = "api"

\* Two codes are the same without regard to letter case.
C27_SameCode(a, b) == ToUpperCase(a) = ToUpperCase(b)
\* The code is in the configured allow-list, compared without regard to case.
C27_Listed(code) ==
  /\ ~config.supportedCountries.isUndefined
  /\ \E i \in 1..Len(config.supportedCountries.items) :
       C27_SameCode(config.supportedCountries.items[i], code)

\* C27 as stated: supportsRoute() returns true exactly when both codes,
\* compared without regard to letter case, are in the allow-list.
C27_CaseInsensitiveMembership ==
  route.called => (route.result <=> (C27_Listed(route.origin) /\ C27_Listed(route.destination)))

(***************************************************************************)
(* The mappings between the domain and the wire format                     *)
(***************************************************************************)
\* C28: every rating call of getRates(), the repeated one included, sends
\* RequestOption 'Rate' when the request names a service level and 'Shop'
\* when it names none.
C28_RequestOption ==
  \A t \in RateCallers : \A k \in 1..Len(rates[t].calls) :
    rates[t].calls[k].wire.RequestOption =
      (IF rates[t].request.serviceLevel # "undefined" THEN "Rate" ELSE "Shop")
\* A request that names the service level GROUND was sent twice, the second
\* time after a 401, both times with RequestOption 'Rate'.
C28_Witness ==
  \E t \in RateCallers :
    /\ rates[t].request.serviceLevel = "GROUND"
    /\ Len(rates[t].calls) = 2
    /\ rates[t].calls[1].wire.RequestOption = "Rate"
    /\ rates[t].calls[2].wire.RequestOption = "Rate"

\* The last rating call of t was answered with a list of rated shipments
\* that each carry their Service.
Mapped(t) == rates[t].answers # << >> /\ Succeeded(t, Len(rates[t].answers))

\* C29: when the rating endpoint answers with a list of rated shipments,
\* getRates() returns one quote per entry, in the order of the entries, each
\* with the service code, the total charge amount and the currency of its
\* entry; for an empty list it returns no quote and does not fail.
C29_OneQuotePerEntry ==
  \A t \in RateCallers : Mapped(t) =>
    /\ rates[t].result.state = "fulfilled"
    /\ Len(rates[t].result.quotes) = Len(rates[t].response.entries)
    /\ \A i \in 1..Len(rates[t].response.entries) :
         /\ rates[t].result.quotes[i].carrierServiceCode = rates[t].response.entries[i].Code
         /\ rates[t].result.quotes[i].amount =
              100 * rates[t].response.entries[i].MonetaryValue.units
                + rates[t].response.entries[i].MonetaryValue.hundredths
         /\ rates[t].result.quotes[i].currency = rates[t].response.entries[i].CurrencyCode
\* One getRates() has returned four quotes, with the codes 02, 03, 01 and 11
\* in the order of the answer and the amount 12.50 USD for 03.
C29_Witness ==
  \E t \in RateCallers :
    /\ Mapped(t)
    /\ Len(rates[t].result.quotes) = 4
    /\ [i \in 1..4 |-> rates[t].result.quotes[i].carrierServiceCode] = <<"02", "03", "01", "11">>
    /\ rates[t].result.quotes[2].amount = 1250
    /\ rates[t].result.quotes[2].currency = "USD"
\* C30 as stated: the businessDaysInTransit of a quote is the integer the
\* carrier field denotes when the field is present and numeric, and is
\* omitted when the field is missing or is not numeric: it is never NaN.
C30_BusinessDays ==
  \A t \in RateCallers : Mapped(t) =>
    \A i \in 1..Len(rates[t].response.entries) :
      LET field == rates[t].response.entries[i].BusinessDaysInTransit
          days == rates[t].result.quotes[i].businessDaysInTransit
      IN  /\ field.absent => days = None
          /\ (~field.absent /\ field.lead # << >> /\ field.rest = "")
               => days = Some(DigitsValue(field.lead))
          /\ (~field.absent /\ (field.lead = << >> \/ field.rest # "")) => days = None
          /\ days # Some(NaN)

\* ---------------------------------------------------------------------
\* C31: every getRates() call goes through START, VALIDATED,
\* TOKEN_ACQUIRED, WIRE_REQUEST_BUILT, API_CALLED and then SUCCESS, FAILURE
\* or AUTH_RETRY with a second API_CALLED, in that order.  A rating call is
\* issued only by a step that leaves a token wait with a token in hand, for
\* a request that passed validation; the first call carries the token
\* getAccessToken() returned and the wire request built from the request;
\* and a step of one call touches nothing a different call owns.
C31_StageOrder ==
  { <<"none", "token">>, <<"none", "done">>,
    <<"token", "api">>, <<"token", "done">>,
    <<"api", "done">>, <<"api", "retryToken">>,
    <<"retryToken", "retryApi">>, <<"retryToken", "done">>,
    <<"retryApi", "done">> }
C31_Step(t) ==
  /\ rates[t].stage # rates'[t].stage
       => <<rates[t].stage, rates'[t].stage>> \in C31_StageOrder
  /\ rates'[t].calls # rates[t].calls
       => /\ <<rates[t].stage, rates'[t].stage>>
               \in { <<"token", "api">>, <<"retryToken", "retryApi">> }
          /\ TokenOutcome(t).state = "fulfilled"
          /\ ValidateIssues(rates[t].request) = {}
          /\ Len(rates'[t].calls) = Len(rates[t].calls) + 1
          /\ rates'[t].calls[Len(rates'[t].calls)].token = TokenOutcome(t).value
          /\ rates'[t].calls[Len(rates'[t].calls)].wire
               = ToUPSRateRequest(rates[t].request)
  /\ rates'[t].stage = "api" => Len(rates'[t].calls) = 1
  /\ rates'[t].stage = "retryApi" => Len(rates'[t].calls) = 2
  /\ rates'[t].stage \in {"none", "token"} => rates'[t].calls = << >>
  /\ rates'[t].calls # << >> => ValidateIssues(rates'[t].request) = {}
C32_ShortLived(p) ==
  /\ p \in RefreshIds
  /\ refreshes[p].state = "fulfilled"
  /\ refreshes[p].body.hasToken
  /\ refreshes[p].body.expires_in # NaN
  /\ refreshes[p].body.expires_in * 1000 <= TOKEN_EXPIRY_BUFFER_MS
C32_Cached == ~cachedToken.isNull /\ C32_ShortLived(cachedToken.accessToken)
\* What holds of such a Credential whatever the reading: the call that
\* awaited its refresh returns its token, and getTokenState() reports
\* hasToken = true and isValid = false while it is cached.
C32_InState ==
  /\ \A t \in Tasks :
       (pc[t] = "resolved" /\ C32_ShortLived(awaited[t]))
         => tokenResult[t] = Fulfilled(awaited[t])
  /\ C32_Cached => (GetTokenState.hasToken /\ ~GetTokenState.isValid)
C32_ReturnedAndReported ==
  /\ C32_InState'
  /\ (tokenState' # tokenState /\ C32_Cached)
       => (tokenState'.hasToken /\ ~tokenState'.isValid)
\* C32 as stated: a Credential whose lifetime does not exceed the buffer is
\* invalid from the moment it is cached: the call that obtained it returns its
\* token, getTokenState() reports hasToken = true and isValid = false, and
\* every later getAccessToken() makes a new authentication call.
C32_AlwaysNewCall ==
  [][ /\ C32_ReturnedAndReported
      /\ \A t \in Tasks :
           (pc[t] = "idle" /\ op'[t] = "getAccessToken" /\ C32_Cached)
             => /\ Len(refreshes') = Len(refreshes) + 1
                /\ refreshes'[Len(refreshes')].posted
                /\ awaited'[t] = Len(refreshes') ]_vars
\* C32, amended: every later getAccessToken() finds the Credential invalid
\* and never returns it from the cache: it makes a new authentication call
\* when tokenRefreshPromise is null, and is handed the promise the marker
\* still refers to otherwise.
C32_NeverReused ==
  [][ /\ C32_ReturnedAndReported
      /\ \A t \in Tasks :
           (pc[t] = "idle" /\ op'[t] = "getAccessToken" /\ C32_Cached)
             => IF tokenRefreshPromise = NullPromise
                  THEN /\ Len(refreshes') = Len(refreshes) + 1
                       /\ refreshes'[Len(refreshes')].posted
                       /\ awaited'[t] = Len(refreshes')
                       /\ pc'[t] = "awaiting"
                  ELSE /\ refreshes' = refreshes
                       /\ awaited'[t] = tokenRefreshPromise
                       /\ pc'[t] = "joined" ]_vars
\* The first call obtained a short-lived Credential and returned its token,
\* getTokenState() reported it present and invalid, and the second call made
\* a new authentication call while it was still cached.
C32_Witness ==
  /\ C32_Cached
  /\ cachedToken.accessToken = 1
  /\ op[1] = "getAccessToken" /\ pc[1] = "resolved" /\ tokenResult[1] = Fulfilled(1)
  /\ tokenState.called /\ tokenState.hasToken /\ ~tokenState.isValid
  /\ op[2] = "getAccessToken" /\ awaited[2] = 2 /\ refreshes[2].posted

\* ---------------------------------------------------------------------
\* C33 as stated: in every reachable state, under any interleaving of
\* getAccessToken, forceRefresh and clearCache, whenever an authentication
\* call is outstanding tokenRefreshPromise is non-null and refers to that
\* call.
C33_MarkerAgrees ==
  \A p \in Outstanding : tokenRefreshPromise = p

\* ---------------------------------------------------------------------
\* The refreshes that fail in the step: those that were awaiting their
\* answer and those that refreshToken() rejected before any POST.
C34_FailsNow(p) ==
  /\ refreshes'[p].state = "rejected"
  /\ p \in RefreshIds => refreshes[p].state = "pending"
\* C34: a refresh that fails, with any classified failure, does not modify
\* cachedToken: an expired Credential that was cached before is still cached
\* with the same fields, and an absent one stays absent.
C34_FailureKeepsCache ==
  [][ \A p \in 1..Len(refreshes') :
        C34_FailsNow(p)
          => /\ refreshes'[p].error.kind \in ClassifiedKinds
             /\ cachedToken' = cachedToken ]_vars
\* The second refresh was started with an invalid Credential cached, its POST
\* failed, and the Credential of the first refresh is still cached.
C34_Witness ==
  /\ Len(refreshes) = 2
  /\ refreshes[1].state = "fulfilled"
  /\ refreshes[2].state = "rejected" /\ refreshes[2].posted
  /\ op[2] = "getAccessToken" /\ awaited[2] = 2
  /\ cachedToken = CachedTokenOf(refreshes[1].body, 1, refreshes[1].at)
  /\ ~IsTokenValid(cachedToken, now)

\* ---------------------------------------------------------------------
\* The refreshes that were answered successfully, the one among them that
\* settled last, and the Credential a successful answer denotes.
C35_Successes == { p \in RefreshIds : refreshes[p].state = "fulfilled" }
C35_Latest ==
  CHOOSE p \in C35_Successes :
    \A q \in C35_Successes : refreshes[q].seq <= refreshes[p].seq
C35_CredentialOf(p) == CachedTokenOf(refreshes[p].body, p, refreshes[p].at)
\* C35: whenever cachedToken is non-null, its accessToken, expiresAt and
\* tokenType all come from one successful authentication response, the one
\* that settled most recently; and the token a successful getAccessToken()
\* or forceRefresh() returns is the accessToken of the response of the
\* refresh the caller started or joined.
C35_OneResponse ==
  /\ ~cachedToken.isNull
       => /\ C35_Successes # {}
          /\ cachedToken = C35_CredentialOf(C35_Latest)
  /\ \A t \in Tasks :
       (awaited[t] \in RefreshIds /\ TokenOutcome(t).state = "fulfilled")
         => /\ awaited[t] \in C35_Successes
            /\ TokenOutcome(t).value = C35_CredentialOf(awaited[t]).accessToken
\* Two refreshes were in flight at once and were answered in the opposite
\* order: the Credential cached is that of the first, which settled last,
\* and each caller returned the token of its own refresh.
C35_Witness ==
  /\ C35_Successes = {1, 2}
  /\ refreshes[1].seq > refreshes[2].seq
  /\ ~cachedToken.isNull /\ cachedToken = C35_CredentialOf(1)
  /\ cachedToken.accessToken = 1
  /\ awaited = <<1, 2>>
  /\ tokenResult[1] = Fulfilled(1) /\ tokenResult[2] = Fulfilled(2)

\* ---------------------------------------------------------------------
\* C36: if every authentication call eventually settles, every
\* getAccessToken() and forceRefresh() call eventually resolves or rejects,
\* callers that joined a refresh clearCache() later forgot included; once no
\* authentication call is outstanding tokenRefreshPromise eventually becomes
\* null, and it stays null until the next refresh starts.
C36_EveryCallSettles ==
  /\ \A t \in Tasks : Called(t) ~> (TokenOutcome(t).state # "pending")
  /\ (Outstanding = {}) ~> (tokenRefreshPromise = NullPromise)
  /\ [][ (tokenRefreshPromise = NullPromise /\ tokenRefreshPromise' # NullPromise)
           => /\ Len(refreshes') = Len(refreshes) + 1
              /\ tokenRefreshPromise' = Len(refreshes') ]_vars
\* clearCache() was called, both callers shared the first refresh, which has
\* settled; both hold its outcome, nothing is outstanding and the marker is
\* null.
C36_Witness ==
  /\ clears = 1
  /\ Len(refreshes) = 1 /\ refreshes[1].state # "pending"
  /\ pc[1] = "resolved" /\ awaited[1] = 1
  /\ pc[2] = "joined" /\ awaited[2] = 1
  /\ TokenOutcome(1) = Outcome(1) /\ TokenOutcome(2) = Outcome(1)
  /\ Outstanding = {}
  /\ tokenRefreshPromise = NullPromise

(***************************************************************************)
(* Properties of withRetry                                                 *)
(***************************************************************************)
\* The invocations of the operation so far, and what followed the last one.
C37_Invocations == Len(SelectSeq(retry.log, LAMBDA x : x.kind = "call"))
C37_Sleeps == Len(SelectSeq(retry.log, LAMBDA x : x.kind = "sleep"))
C37_AllFailed == \A i \in 1..Len(retry.outcomes) : retry.outcomes[i].state = "rejected"
\* C37: withRetry invokes the operation at most maxRetries + 1 times; it
\* returns the result of the first attempt that succeeds without invoking the
\* operation again; and when every attempt fails it rejects with the error of
\* the last attempt, with no sleep after that final attempt.
C37_BoundedAttempts ==
  /\ C37_Invocations <= retry.maxRetries + 1
  /\ \A i \in 1..Len(retry.outcomes) :
       retry.outcomes[i].state = "fulfilled"
         => /\ i = Len(retry.outcomes)
            /\ C37_Invocations = i
            /\ retry.stage = "done"
            /\ retry.result = retry.outcomes[i]
            /\ \A j \in 1..(i - 1) : retry.outcomes[j].state = "rejected"
  /\ (retry.stage = "done" /\ C37_AllFailed /\ retry.outcomes # << >>)
       => /\ retry.result = retry.outcomes[Len(retry.outcomes)]
          /\ retry.log[Len(retry.log)].kind = "call"
          /\ C37_Sleeps = C37_Invocations - 1
  /\ (retry.log # << >> /\ C37_Invocations = retry.maxRetries + 1)
       => retry.log[Len(retry.log)].kind = "call"
\* Every one of the maxRetries + 1 attempts failed, with a sleep between
\* them, and the call rejected with the error the last one threw.
C37_Witness ==
  /\ retry.stage = "done"
  /\ retry.maxRetries = MaxRetriesOption
  /\ Len(retry.outcomes) = MaxRetriesOption + 1
  /\ C37_AllFailed
  /\ retry.result = Rejected(Thrown("E2", MaxRetriesOption + 1))
  /\ retry.outcomes[1] = Rejected(Thrown("E1", 1))
  /\ C37_Sleeps = MaxRetriesOption

\* C38: as soon as shouldRetry(error) returns false for a failed attempt,
\* withRetry rejects with that same error, without sleeping and without
\* invoking the operation again, whatever number of retries remains.
C38_StopsWhenNotRetryable ==
  \A i \in 1..Len(retry.outcomes) :
    (retry.outcomes[i].state = "rejected" /\ ~ShouldRetry(retry, retry.outcomes[i].error))
      => /\ retry.stage = "done"
         /\ retry.result = Rejected(retry.outcomes[i].error)
         /\ i = Len(retry.outcomes)
         /\ C37_Invocations = i
         /\ retry.log[Len(retry.log)].kind = "call"
\* The second attempt failed with an error shouldRetry() refuses, with a
\* retry still left, after the first failed with one it accepts.
C38_Witness ==
  /\ retry.stage = "done"
  /\ retry.maxRetries = 2
  /\ retry.shouldRetry = {"E1"}
  /\ Len(retry.outcomes) = 2
  /\ retry.outcomes[1] = Rejected(Thrown("E1", 1))
  /\ retry.result = Rejected(Thrown("E2", 2))

(***************************************************************************)
(* Properties of the configuration cache                                   *)
(***************************************************************************)
\* C39: getConfig() loads the configuration at most once between resets:
\* after one successful call every later call returns the same cached value
\* without reloading, until resetConfigCache() is called, after which the
\* next call loads again; a load that fails with ConfigurationError caches
\* nothing, so the next getConfig() attempts the load again.
C39_LoadedOncePerReset ==
  [][ /\ app'.fresh <= 1
      /\ app'.cachedConfig.isNull <=> app'.fresh = 0
      /\ app'.calls # app.calls
           => IF app.cachedConfig.isNull
                THEN /\ app'.loads = app.loads + 1
                     /\ app'.returned.state = "rejected"
                          => /\ app'.returned.error.kind = "ConfigurationError"
                             /\ app'.cachedConfig.isNull
                     /\ app'.returned.state = "fulfilled"
                          => /\ app'.cachedConfig = app'.returned.value
                             /\ app'.cachedConfig.object = app'.loads
                ELSE /\ app'.loads = app.loads
                     /\ app'.cachedConfig = app.cachedConfig
                     /\ app'.returned = Fulfilled(app.cachedConfig)
      /\ app'.resets # app.resets
           => app'.cachedConfig.isNull /\ app'.loads = app.loads ]_vars
\* Of four calls three loaded: one load failed and was attempted again, one
\* call returned the cached object without loading, and after the reset the
\* next successful call loaded a new object, which is now cached.
C39_Witness ==
  /\ app.calls = 4 /\ app.loads = 3 /\ app.resets = 1
  /\ ~app.cachedConfig.isNull
  /\ app.cachedConfig.object = 3
  /\ app.returned = Fulfilled(app.cachedConfig)

====
